---------------------------- MODULE Spec2Model ----------------------------
(***************************************************************************)
(* State-machine model of the Vbox box-measurement system:                 *)
(*   src/Vbox_v1.py        ARDOutputMap, BoxMeasurementSystem              *)
(*   src/PLC.py            PLCOutputMap                                    *)
(*   src/Arduinooutput.py  ArduinoOutput                                   *)
(*                                                                         *)
(* Numbers.  Centimetre values are exact rationals <<n, d>> (d > 0).       *)
(* pixels_per_cm is held in thousandths (PpcScale).  Time is counted in    *)
(* ticks of half a second; the model keeps, for each timestamp of the      *)
(* code, the time elapsed since it was taken.                              *)
(***************************************************************************)
EXTENDS Integers, Sequences, FiniteSets, TLC

VARIABLES
    pc,                      \* position in main()/run(): "start", "frame", "ard", "key", "image", "done"; in a driver of pure functions: "map", "pure", "encoded", "classified", "session1", "written", "serial", "packed"
    output_byte,             \* ARDOutputMap.output_byte
    output_history,          \* ARDOutputMap.output_history (deque, maxlen 5)
    since_update,            \* time.time() - ARDOutputMap.last_update_time, in ticks
    plc_output_byte,         \* PLCOutputMap.output_byte
    plc_output_history,      \* PLCOutputMap.output_history (deque, maxlen 5)
    plc_since_update,        \* time.time() - PLCOutputMap.last_update_time, in ticks
    sends,                   \* number of send_to_ARD / send_to_plc calls made by the map driver
    camera,                  \* BoxMeasurementSystem.camera: "none", "open", "released"
    is_video_file,           \* BoxMeasurementSystem.is_video_file
    calibrated,              \* BoxMeasurementSystem.calibrated
    pixels_per_cm,           \* BoxMeasurementSystem.pixels_per_cm: NoValue, or << thousandths >>
    reference_width_cm,      \* BoxMeasurementSystem.reference_width_cm
    calib_file,              \* calibracao.txt: NoFile, or << the PIXELS_PER_CM text in hundredths >>
    max_angle_deviation,     \* BoxMeasurementSystem.max_angle_deviation
    box_type_history,        \* BoxMeasurementSystem.box_type_history (deque, maxlen 20)
    last_stable_type,        \* BoxMeasurementSystem.last_stable_type
    stable_detection_count,  \* BoxMeasurementSystem.stable_detection_count
    frames_processed,        \* BoxMeasurementSystem.frames_processed
    total_boxes,             \* BoxMeasurementSystem.total_boxes
    valid_boxes,             \* BoxMeasurementSystem.valid_boxes
    system_errors,           \* BoxMeasurementSystem.system_errors
    current_detections,      \* process_frame's local current_detections, as the last frame left it
    len_cnts,                \* len(cnts) in the last process_frame
    calibration_call,        \* the call of calibrate_with_reference in the last frame: NoCall, or << edges of len_cnts, what it returned ("box", "None") >>
    read_attempts,           \* camera.read() calls made in the last pass of run()'s loop
    exit_cause,              \* how run() left its loop: "none", "quit", "read_failure", "exception", "interrupt"
    paused,                  \* run()'s local paused
    since_ARD_update,        \* time.time() - last_ARD_update of run(), in ticks
    in_w, in_h, in_status,   \* arguments handed to a pure function under check
    out_class, out_packed, out_line, \* results of the pure functions
    plc_out_packed,          \* what PLCOutputMap.get_output_string returned
    out_ppc,                 \* pixels_per_cm as the calibration that wrote calibracao.txt computed it
    in_angle,                \* the angle of cv2.minAreaRect handed to the alignment test
    out_aligned,             \* the normalized angle and the outcome of the alignment test
    simulate,                \* ArduinoOutput.simulate
    serial_connection,       \* ArduinoOutput.serial_connection: "None", "open"
    last_output,             \* ArduinoOutput.last_output: NoValue, or the dict as a record
    since_status_update,     \* time.time() - ArduinoOutput.last_update_time, in ticks
    updates,                 \* number of update_status calls made
    write_attempts,          \* number of serial_connection.write calls made
    update_call,             \* the last update_status call: NoCall, or [ write, returned ]
    connect_call,            \* the call of _connect_serial in __init__: NoCall, or << what it returned >>
    scen                     \* position in a driven frame scenario

vars == << pc, output_byte, output_history, since_update, plc_output_byte,
           plc_output_history, plc_since_update, sends, camera, is_video_file, calibrated,
           pixels_per_cm, reference_width_cm, calib_file, max_angle_deviation,
           box_type_history, last_stable_type, stable_detection_count,
           frames_processed, total_boxes, valid_boxes, system_errors,
           current_detections, len_cnts, calibration_call, read_attempts,
           exit_cause, paused, since_ARD_update, in_w, in_h, in_status,
           out_class, out_packed, plc_out_packed, out_line, out_ppc, in_angle, out_aligned,
           simulate, serial_connection, last_output, since_status_update,
           updates, write_attempts, update_call, connect_call, scen >>

mapVars == << output_byte, output_history, since_update >>
plcVars == << plc_output_byte, plc_output_history, plc_since_update >>
sysVars == << camera, is_video_file, calibrated, pixels_per_cm, reference_width_cm,
              calib_file, max_angle_deviation, box_type_history, last_stable_type,
              stable_detection_count, frames_processed, total_boxes, valid_boxes,
              system_errors, current_detections, len_cnts, calibration_call,
              read_attempts, exit_cause, paused, since_ARD_update >>
angleVars == << in_angle, out_aligned >>
pureVars == << in_w, in_h, in_status, out_class, out_packed, plc_out_packed, out_line, out_ppc,
               in_angle, out_aligned >>
arduinoVars == << simulate, serial_connection, last_output, since_status_update,
                 updates, write_attempts, update_call, connect_call >>

None == "None"       \* Python's None where a type label is expected
NoValue == << >>     \* Python's None where a number is expected; << v >> is the number v
NoFile == << >>      \* calibracao.txt does not exist; << h >> is the text of h hundredths
NoCall == << >>      \* calibrate_with_reference was not called

(***************************************************************************)
(* Bounds of the model.                                                    *)
(***************************************************************************)
MaxSends == 1        \* send calls the status-map driver makes
MaxFrames == 2       \* frames one run processes
MaxRects == 3        \* accepted rectangles in one frame (reference included)
MaxScenPrefix == 1   \* free frames before a driven scenario starts
MaxHistFrames == 7   \* frames of a run that fills box_type_history
MaxLongFrames == 102 \* frames of a long run
MaxLongBoxFrames == 2 \* frames at the start of a long run that may show a box
MaxPauseFrames == 103 \* frames of a long run that the operator pauses
MaxScaleFrames == 3  \* frames of a run over references of 28 px/cm or less
AngleScale == 1      \* steps per degree in which angles are counted
MaxEmissions == 6    \* emissions of a run that fills output_history
MaxUpdates == 3      \* update_status calls made on one ArduinoOutput
MaxStatusAge == 2    \* ticks counted since ArduinoOutput.last_update_time
MaxMapAge == 1       \* ticks counted since last_update_time of the two maps

(***************************************************************************)
(* Integer helpers.                                                        *)
(***************************************************************************)
Abs(x) == IF x < 0 THEN -x ELSE x
Min(a, b) == IF a <= b THEN a ELSE b
Max(a, b) == IF a >= b THEN a ELSE b

RECURSIVE BitAnd(_, _)
\* Python's & on non-negative integers
BitAnd(a, b) ==
    IF a = 0 \/ b = 0 THEN 0
    ELSE (IF a % 2 = 1 /\ b % 2 = 1 THEN 1 ELSE 0) + 2 * BitAnd(a \div 2, b \div 2)

RECURSIVE BitOr(_, _)
\* Python's | on non-negative integers
BitOr(a, b) ==
    IF a = 0 THEN b
    ELSE IF b = 0 THEN a
    ELSE (IF a % 2 = 1 \/ b % 2 = 1 THEN 1 ELSE 0) + 2 * BitOr(a \div 2, b \div 2)

\* Python's >> on non-negative integers
ShiftRight(a, n) == a \div (2 ^ n)

\* bit n of a
Bit(a, n) == ShiftRight(a, n) % 2

\* collections.deque(maxlen=cap).append(x)
DequeAppend(q, x, cap) ==
    IF Len(q) < cap THEN Append(q, x) ELSE Append(Tail(q), x)

(***************************************************************************)
(* ARDOutputMap (src/Vbox_v1.py).  Each update is a function of the byte.  *)
(***************************************************************************)
OutputHistoryLen == 5      \* deque(maxlen=5)
OperationalTimeout == 4    \* operational_timeout = 2.0 s, in ticks of 0.5 s

BoxTypeArgs == {"10x20", "20x20", "30x50", "NONE", "UNKNOWN", "40x40"}

update_camera_status(byte, is_operational) ==
    IF is_operational THEN BitOr(byte, 1) ELSE BitAnd(byte, 254)

\* an update that clears with the mask of the bit instead of its complement
update_error_status_bit_mask(byte, has_error) ==
    IF has_error THEN BitOr(byte, 2) ELSE BitAnd(byte, 2)

update_error_status(byte, has_error) ==
    IF has_error THEN BitOr(byte, 2) ELSE BitAnd(byte, 253)

\* an update that sets the detection bit and never clears it
update_box_detected_set_only(byte, is_detected) ==
    IF is_detected THEN BitOr(byte, 4) ELSE byte

update_box_detected(byte, is_detected) ==
    IF is_detected THEN BitOr(byte, 4) ELSE BitAnd(byte, 251)

update_box_type_mask_bug(byte, box_type) ==
    LET cleared == BitAnd(byte, 231)
    IN  IF box_type = "10x20" THEN BitOr(cleared, 8)
        ELSE IF box_type = "20x20" THEN BitOr(cleared, 16)
        ELSE IF box_type = "30x50" THEN BitOr(cleared, 24)
        ELSE BitOr(cleared, 56)

update_box_type(byte, box_type) ==
    LET cleared == BitAnd(byte, 231)
    IN  IF box_type = "10x20" THEN BitOr(cleared, 8)
        ELSE IF box_type = "20x20" THEN BitOr(cleared, 16)
        ELSE IF box_type = "30x50" THEN BitOr(cleared, 24)
        ELSE BitOr(cleared, 0)

\* a timeout that already strikes at operational_timeout
check_operational_timeout_inclusive(age) == ~(age >= OperationalTimeout)

\* True while the last update is at most operational_timeout old
check_operational_timeout(age) == ~(age > OperationalTimeout)

get_output_string(byte) ==
    LET type_bits == ShiftRight(BitAnd(byte, 24), 3)
    IN  [ binary    |-> [i \in 1..8 |-> Bit(byte, 8 - i)],
          camera    |-> IF BitAnd(byte, 1) # 0 THEN 1 ELSE 0,
          error     |-> IF BitAnd(byte, 2) # 0 THEN 1 ELSE 0,
          detection |-> IF BitAnd(byte, 4) # 0 THEN 1 ELSE 0,
          type      |-> IF type_bits = 1 THEN "10x20"
                        ELSE IF type_bits = 2 THEN "20x20"
                        ELSE IF type_bits = 3 THEN "30x50"
                        ELSE "NONE" ]

\* a history that refuses a new entry once it is full
send_to_ARD_history_keep_oldest(hist, byte) ==
    IF Len(hist) < OutputHistoryLen THEN Append(hist, byte) ELSE hist

\* send_to_ARD: history and timestamp after the call
send_to_ARD_history(hist, byte) == DequeAppend(hist, byte, OutputHistoryLen)

(***************************************************************************)
(* PLCOutputMap (src/PLC.py).                                              *)
(***************************************************************************)
plc_update_camera_status(byte, is_operational) ==
    IF is_operational THEN BitOr(byte, 1) ELSE BitAnd(byte, 254)

plc_update_error_status(byte, has_error) ==
    IF has_error THEN BitOr(byte, 2) ELSE BitAnd(byte, 253)

plc_update_box_detected(byte, is_detected) ==
    IF is_detected THEN BitOr(byte, 4) ELSE BitAnd(byte, 251)

\* an update that gives every name outside the catalogue the bits 11
plc_update_box_type_unknown_set(byte, box_type) ==
    LET cleared == BitAnd(byte, 231)
    IN  IF box_type = "10x20" THEN BitOr(cleared, 8)
        ELSE IF box_type = "20x20" THEN BitOr(cleared, 16)
        ELSE BitOr(cleared, 24)

plc_update_box_type(byte, box_type) ==
    LET cleared == BitAnd(byte, 231)
    IN  IF box_type = "10x20" THEN BitOr(cleared, 8)
        ELSE IF box_type = "20x20" THEN BitOr(cleared, 16)
        ELSE IF box_type = "30x50" THEN BitOr(cleared, 24)
        ELSE BitOr(cleared, 0)

plc_get_output_string(byte) ==
    LET type_bits == ShiftRight(BitAnd(byte, 24), 3)
    IN  [ binary    |-> [i \in 1..8 |-> Bit(byte, 8 - i)],
          decimal   |-> byte,
          camera    |-> IF BitAnd(byte, 1) # 0 THEN 1 ELSE 0,
          error     |-> IF BitAnd(byte, 2) # 0 THEN 1 ELSE 0,
          detection |-> IF BitAnd(byte, 4) # 0 THEN 1 ELSE 0,
          type      |-> IF type_bits = 1 THEN "10x20"
                        ELSE IF type_bits = 2 THEN "20x20"
                        ELSE IF type_bits = 3 THEN "30x50"
                        ELSE "NONE" ]

send_to_plc_history(hist, byte) == DequeAppend(hist, byte, OutputHistoryLen)

(***************************************************************************)
(* ArduinoOutput (src/Arduinooutput.py): the line protocol.                *)
(***************************************************************************)
\* a table whose default is the code of NONE
type_code_default_none(box_type) ==
    IF box_type = "10x20" THEN 1
    ELSE IF box_type = "20x20" THEN 2
    ELSE IF box_type = "30x50" THEN 4
    ELSE IF box_type = "NONE" THEN 0
    ELSE IF box_type = "UNKNOWN" THEN 7
    ELSE 0

\* self.type_codes.get(box_type, 0b111)
type_code(box_type) ==
    IF box_type = "10x20" THEN 1
    ELSE IF box_type = "20x20" THEN 2
    ELSE IF box_type = "30x50" THEN 4
    ELSE IF box_type = "NONE" THEN 0
    ELSE IF box_type = "UNKNOWN" THEN 7
    ELSE 7

\* str(n) of one decimal digit
Digit(n) == CASE n = 0 -> "0" [] n = 1 -> "1" [] n = 2 -> "2" [] n = 3 -> "3"
              [] n = 4 -> "4" [] n = 5 -> "5" [] n = 6 -> "6" [] n = 7 -> "7"
              [] n = 8 -> "8" [] n = 9 -> "9"

\* int(flag) of a bool
BoolInt(b) == IF b THEN 1 ELSE 0

\* The command string of update_status, as its sequence of characters
update_status_command(camera_status, error_status, detection_status, box_type) ==
    LET code == type_code(box_type)
        type_bit0 == BitAnd(ShiftRight(code, 0), 1)
        type_bit1 == BitAnd(ShiftRight(code, 1), 1)
        type_bit2 == BitAnd(ShiftRight(code, 2), 1)
    IN  << Digit(BoolInt(camera_status)), ":", Digit(BoolInt(error_status)), ":",
           Digit(BoolInt(detection_status)), ":", Digit(type_bit0), ":",
           Digit(type_bit1), ":", Digit(type_bit2), "\n" >>

\* a connection attempt that leaves simulate as it was when the port fails
_connect_serial_no_fallback(connect_ok) ==
    IF connect_ok
    THEN [ simulate |-> FALSE, serial_connection |-> "open", returned |-> "True" ]
    ELSE [ simulate |-> FALSE, serial_connection |-> None, returned |-> "False" ]

\* _connect_serial: simulate and serial_connection after the attempt to open
\* the port, and what the method returned
_connect_serial(connect_ok) ==
    IF connect_ok
    THEN [ simulate |-> FALSE, serial_connection |-> "open", returned |-> "True" ]
    ELSE [ simulate |-> TRUE, serial_connection |-> None, returned |-> "False" ]

\* ArduinoOutput.__init__(simulate=sim): simulate and serial_connection, and
\* the call of _connect_serial if there was one
ArduinoOutput_init(sim, connect_ok) ==
    IF ~sim
    THEN [ simulate |-> _connect_serial(connect_ok).simulate,
           serial_connection |-> _connect_serial(connect_ok).serial_connection,
           connect_call |-> << _connect_serial(connect_ok).returned >> ]
    ELSE [ simulate |-> TRUE, serial_connection |-> None, connect_call |-> NoCall ]

\* a send that lets the exception of a failed write pass
_send_to_arduino_uncaught(sim, conn, write_ok) ==
    IF ~sim /\ conn # None
    THEN IF write_ok THEN [ write |-> "ok", returned |-> "True" ]
         ELSE [ write |-> "failed", returned |-> "raised" ]
    ELSE [ write |-> "skipped", returned |-> "False" ]

\* _send_to_arduino(command): what became of serial_connection.write ("ok",
\* "failed" when it raised, "skipped" when it was not called) and what the
\* method returned
_send_to_arduino(sim, conn, write_ok) ==
    IF ~sim /\ conn # None
    THEN IF write_ok THEN [ write |-> "ok", returned |-> "True" ]
         ELSE [ write |-> "failed", returned |-> "False" ]
    ELSE [ write |-> "skipped", returned |-> "False" ]

RECURSIVE strip(_)
\* str.strip() on a sequence of characters
strip(str) ==
    IF str = << >> THEN str
    ELSE IF Head(str) \in { " ", "\n" } THEN strip(Tail(str))
    ELSE IF str[Len(str)] \in { " ", "\n" } THEN strip(SubSeq(str, 1, Len(str) - 1))
    ELSE str

\* update_status: last_output, the age of last_update_time and the outcome
\* of the call; an exception raised by the send would leave the fields as
\* they were
update_status(sim, conn, last, age, camera_status, error_status, detection_status, box_type, write_ok) ==
    LET command == update_status_command(camera_status, error_status,
                                         detection_status, box_type)
        success == _send_to_arduino(sim, conn, write_ok)
    IN  IF success.returned = "raised"
        THEN [ last_output |-> last, since |-> age, call |-> success ]
        ELSE [ last_output |-> [ camera    |-> camera_status,
                                 error     |-> error_status,
                                 detection |-> detection_status,
                                 type      |-> box_type,
                                 type_code |-> type_code(box_type),
                                 command   |-> strip(command) ],
               since |-> 0,
               call |-> success ]

\* self.type_codes
type_codes ==
    [ box_type \in { "10x20", "20x20", "30x50", "NONE", "UNKNOWN" } |->
        CASE box_type = "10x20" -> 1
          [] box_type = "20x20" -> 2
          [] box_type = "30x50" -> 4
          [] box_type = "NONE" -> 0
          [] box_type = "UNKNOWN" -> 7 ]

\* a send that hands every box_type to update_status
send_stable_detection_unchecked(sim, conn, last, age, box_type, write_ok) ==
    update_status(sim, conn, last, age, TRUE, FALSE, TRUE, box_type, write_ok)

\* send_stable_detection(box_type): last_output, the age of last_update_time,
\* what became of the write, what the method returned and whether it called
\* update_status
send_stable_detection(sim, conn, last, age, box_type, write_ok) ==
    IF box_type \in DOMAIN type_codes
    THEN update_status(sim, conn, last, age, TRUE, FALSE, TRUE, box_type, write_ok)
    ELSE [ last_output |-> last, since |-> age,
           call |-> [ write |-> "skipped", returned |-> "False" ] ]

(***************************************************************************)
(* BoxMeasurementSystem (src/Vbox_v1.py): calibration, measurement and     *)
(* classification.  A rectangle is the pair of its edge lengths in pixels, *)
(* << |tl tr|, |tr br| >>.                                                 *)
(***************************************************************************)
ToleranceCm == 3           \* tolerance_cm = 3.0
CalibrationOffset == 28    \* the constant subtracted in calibrate_with_reference
PpcScale == 1000           \* pixels_per_cm is held in thousandths
BoxTypeHistoryLen == 20    \* deque(maxlen=20)
ProcessingErrorFrames == 100
StableThreshold == 3       \* "estavel apos 3 deteccoes consecutivas"

\* self.box_types, in declaration order
box_types == << [name |-> "10x20", ref_width |-> 10, ref_height |-> 20],
                [name |-> "20x20", ref_width |-> 20, ref_height |-> 20],
                [name |-> "30x50", ref_width |-> 30, ref_height |-> 50] >>

BoxTypeNames == {box_types[i].name : i \in 1..Len(box_types)}

\* tolerance test that excludes the boundary
WithinTolerance_strict(q, ref) == Abs(q[1] - ref * q[2]) < ToleranceCm * q[2]

\* abs(q - ref) <= tolerance_cm for a rational q = <<n, d>>, d > 0
WithinTolerance(q, ref) == Abs(q[1] - ref * q[2]) <= ToleranceCm * q[2]

\* entry test without the swapped orientation
EntryMatches_no_swap(entry, width_cm, height_cm) ==
    WithinTolerance(width_cm, entry.ref_width) /\ WithinTolerance(height_cm, entry.ref_height)

\* The test of one catalog entry in classify_box
EntryMatches(entry, width_cm, height_cm) ==
    LET width_match == WithinTolerance(width_cm, entry.ref_width)
        height_match == WithinTolerance(height_cm, entry.ref_height)
        width_match_swapped == WithinTolerance(width_cm, entry.ref_height)
        height_match_swapped == WithinTolerance(height_cm, entry.ref_width)
    IN  (width_match /\ height_match) \/ (width_match_swapped /\ height_match_swapped)

RECURSIVE classify_from(_, _, _)
\* The for loop of classify_box from catalog position i on
classify_from(i, width_cm, height_cm) ==
    IF i > Len(box_types) THEN [type |-> "UNKNOWN", valid |-> FALSE]
    ELSE IF EntryMatches(box_types[i], width_cm, height_cm)
         THEN [type |-> box_types[i].name, valid |-> TRUE]
         ELSE classify_from(i + 1, width_cm, height_cm)

classify_box(width_cm, height_cm) ==
    IF width_cm = NoValue \/ height_cm = NoValue
    THEN [type |-> "UNKNOWN", valid |-> FALSE]
    ELSE classify_from(1, width_cm, height_cm)

\* measure_box: << width_cm, height_cm >>, or << None, None >>; ppc is the
\* pixels_per_cm field
measure_box(box, cal, ppc) ==
    LET width_px == Min(box[1], box[2])
        height_px == Max(box[1], box[2])
    IN  IF cal /\ ppc[1] > 0
        THEN << << width_px * PpcScale, ppc[1] >>, << height_px * PpcScale, ppc[1] >> >>
        ELSE << NoValue, NoValue >>

\* a format of one decimal (":.1f"), in hundredths
Format2_one_decimal(ppc) ==
    LET q == Abs(ppc) \div (PpcScale \div 10)
        rem == Abs(ppc) % (PpcScale \div 10)
        h == IF rem * 2 > PpcScale \div 10 \/ (rem * 2 = PpcScale \div 10 /\ q % 2 = 1)
             THEN q + 1 ELSE q
    IN  IF ppc < 0 THEN -(h * 10) ELSE h * 10

\* f"{pixels_per_cm:.2f}": the value in hundredths.  The conversion rounds the
\* float to the nearest hundredth and an exact tie to the even one; the
\* values of the model are exact in thousandths and their ties (odd eighths)
\* are exact floats.
Format2(ppc) ==
    LET q == Abs(ppc) \div (PpcScale \div 100)
        rem == Abs(ppc) % (PpcScale \div 100)
        h == IF rem * 2 > PpcScale \div 100 \/ (rem * 2 = PpcScale \div 100 /\ q % 2 = 1)
             THEN q + 1 ELSE q
    IN  IF ppc < 0 THEN -h ELSE h

\* float(text) of a two-decimal text, in thousandths
Parse2(hundredths) == hundredths * (PpcScale \div 100)

\* a normalization that folds and keeps the sign
normalize_angle_signed(angle) ==
    IF angle < -45 * AngleScale THEN 90 * AngleScale + angle ELSE angle

\* is_aligned_rectangle, "Normalizar ângulo para 0-90 graus": the angle of
\* cv2.minAreaRect, in steps of 1/AngleScale degree, after the fold and abs
normalize_angle(angle) ==
    Abs(IF angle < -45 * AngleScale THEN 90 * AngleScale + angle ELSE angle)

\* an alignment test that rejects the two boundary angles
angle_within_deviation_exclusive(angle, deviation) ==
    ~(angle >= deviation * AngleScale /\ angle <= (90 - deviation) * AngleScale)

\* is_aligned_rectangle, "Verificar alinhamento com os eixos": TRUE when the
\* method does not return at line 235
angle_within_deviation(angle, deviation) ==
    ~(angle > deviation * AngleScale /\ angle < (90 - deviation) * AngleScale)

\* calibrate_with_reference: the state it leaves and whether it returned a box
\* (ok).  The steps before the assignments repeat what is_aligned_rectangle
\* already did on the same contour without raising, and a numpy division
\* does not raise; write_ok is whether calibracao.txt could be written, the
\* one step that can raise.  The reference size ref_cm is positive.
\* a calibration that leaves the system uncalibrated when the scale it
\* computed is not positive
calibrate_with_reference_validated(ref_box, ref_cm, write_ok, cal, ppc, file) ==
    LET min_dimension == Min(ref_box[1], ref_box[2])
        new_ppc == (min_dimension * PpcScale) \div ref_cm - CalibrationOffset * PpcScale
    IN  [calibrated |-> new_ppc > 0, pixels_per_cm |-> << new_ppc >>,
         calib_file |-> IF write_ok THEN << Format2(new_ppc) >> ELSE file,
         ok |-> write_ok]

calibrate_with_reference(ref_box, ref_cm, write_ok, cal, ppc, file) ==
    LET min_dimension == Min(ref_box[1], ref_box[2])
        new_ppc == (min_dimension * PpcScale) \div ref_cm - CalibrationOffset * PpcScale
    IN  [calibrated |-> TRUE, pixels_per_cm |-> << new_ppc >>,
         calib_file |-> IF write_ok THEN << Format2(new_ppc) >> ELSE file,
         ok |-> write_ok]

\* a reference step that calibrates in every frame with a reference
reference_step_every_frame(f, ref_cm, write_ok, cal, ppc, file) ==
    IF Len(f) > 0
    THEN LET c == calibrate_with_reference(f[1], ref_cm, write_ok, cal, ppc, file)
         IN  [calibrated |-> c.calibrated, pixels_per_cm |-> c.pixels_per_cm,
              calib_file |-> c.calib_file,
              call |-> << f[1], IF c.ok THEN "box" ELSE "None" >>]
    ELSE [calibrated |-> cal, pixels_per_cm |-> ppc, calib_file |-> file, call |-> NoCall]

\* "Processar objeto de referência" of process_frame: the calibration state
\* it leaves, and the call of calibrate_with_reference it made
reference_step(f, ref_cm, write_ok, cal, ppc, file) ==
    IF Len(f) > 0 /\ ~cal
    THEN LET c == calibrate_with_reference(f[1], ref_cm, write_ok, cal, ppc, file)
         IN  [calibrated |-> c.calibrated, pixels_per_cm |-> c.pixels_per_cm,
              calib_file |-> c.calib_file,
              call |-> << f[1], IF c.ok THEN "box" ELSE "None" >>]
    ELSE [calibrated |-> cal, pixels_per_cm |-> ppc, calib_file |-> file, call |-> NoCall]

\* The startup load of run(): << calibrated, pixels_per_cm >> after it
load_calibration(file, cal, ppc) ==
    IF file = NoFile THEN << cal, ppc >> ELSE << TRUE, << Parse2(file[1]) >> >>

(***************************************************************************)
(* process_frame and update_output_map.  A frame is the sequence of the    *)
(* rectangles find_aligned_rectangles accepted, left to right.             *)
(***************************************************************************)
RECURSIVE classify_rest(_, _, _, _)
\* The loop "for i in range(1, len(cnts))" from position i on:
\* the labels appended to current_detections, in order
classify_rest(f, i, cal, ppc) ==
    IF i > Len(f) THEN << >>
    ELSE IF ~cal THEN classify_rest(f, i + 1, cal, ppc)
    ELSE LET m == measure_box(f[i], cal, ppc)
         IN  IF m[1] = NoValue \/ m[2] = NoValue THEN classify_rest(f, i + 1, cal, ppc)
             ELSE LET c == classify_box(m[1], m[2])
                  IN  IF c.valid THEN << c.type >> \o classify_rest(f, i + 1, cal, ppc)
                      ELSE classify_rest(f, i + 1, cal, ppc)

\* a loop that takes the leftmost rectangle for a box too
classify_boxes_from_leftmost(f, cal, ppc) == classify_rest(f, 1, cal, ppc)

\* "Processar demais retângulos (caixas)": the loop from the second
\* rectangle on ("Pular o primeiro (referência)")
classify_boxes(f, cal, ppc) == classify_rest(f, 2, cal, ppc)

\* history that receives one label for the whole frame
extend_history_once(hist, labels) ==
    IF labels = << >> THEN hist ELSE DequeAppend(hist, Head(labels), BoxTypeHistoryLen)

RECURSIVE extend_history(_, _)
\* box_type_history after the appends of one frame
extend_history(hist, labels) ==
    IF labels = << >> THEN hist
    ELSE extend_history(DequeAppend(hist, Head(labels), BoxTypeHistoryLen), Tail(labels))

\* Counter(labels)[x]
CountOf(labels, x) == Cardinality({i \in 1..Len(labels) : labels[i] = x})

\* the most frequent label, the earliest catalog entry winning a tie
most_common_catalog(labels) ==
    LET best == CHOOSE i \in 1..Len(box_types) :
                  /\ CountOf(labels, box_types[i].name) > 0
                  /\ \A j \in 1..Len(box_types) :
                       CountOf(labels, box_types[j].name) <= CountOf(labels, box_types[i].name)
                  /\ \A j \in 1..(i - 1) :
                       CountOf(labels, box_types[j].name) < CountOf(labels, box_types[i].name)
    IN  box_types[best].name

\* Counter(labels).most_common(1)[0][0]: the largest count, the label met first
\* winning a tie (labels is not empty)
most_common(labels) ==
    LET best == CHOOSE i \in 1..Len(labels) :
                  /\ \A j \in 1..Len(labels) : CountOf(labels, labels[j]) <= CountOf(labels, labels[i])
                  /\ \A j \in 1..(i - 1) : CountOf(labels, labels[j]) < CountOf(labels, labels[i])
    IN  labels[best]

\* stabilisation that waits for the threshold before it takes a new type
stabilize_gated(labels, last, count) ==
    IF labels # << >>
    THEN LET current_type == most_common(labels)
         IN  IF current_type = last THEN << current_type, count + 1 >>
             ELSE IF count >= StableThreshold THEN << current_type, 1 >> ELSE << last, 1 >>
    ELSE << None, 0 >>

\* stabilisation that debounces the clearing
stabilize_keep(labels, last, count) ==
    IF labels # << >>
    THEN LET current_type == most_common(labels)
         IN  IF current_type = last THEN << current_type, count + 1 >>
             ELSE << current_type, 1 >>
    ELSE IF count > 0 THEN << last, 0 >> ELSE << None, 0 >>

\* "Determinar tipo estavel": << last_stable_type, stable_detection_count >>
stabilize(labels, last, count) ==
    IF labels # << >>
    THEN LET current_type == most_common(labels)
             checked == IF current_type = last THEN << last, count + 1 >>
                        ELSE << current_type, 1 >>
         IN  IF checked[2] >= StableThreshold THEN << current_type, checked[2] >>
             ELSE checked
    ELSE << None, 0 >>

\* an error summary that leaves the timeout out
has_error_no_timeout(errs) ==
    errs.camera_error \/ errs.calibration_error \/ errs.processing_error

\* any(self.system_errors.values())
has_error(errs) ==
    errs.camera_error \/ errs.calibration_error \/ errs.processing_error \/ errs.timeout_error

\* an error check whose frame threshold is one frame late
check_system_errors_late(errs, cam, age, frames, valid) ==
    [ camera_error      |-> ~(cam = "open"),
      calibration_error |-> errs.calibration_error,
      processing_error  |-> (frames > ProcessingErrorFrames + 1 /\ valid = 0),
      timeout_error     |-> ~check_operational_timeout(age) ]

\* an error check whose timeout and processing flags stay once set
check_system_errors_latched(errs, cam, age, frames, valid) ==
    [ camera_error      |-> ~(cam = "open"),
      calibration_error |-> errs.calibration_error,
      processing_error  |-> errs.processing_error
                            \/ (frames > ProcessingErrorFrames /\ valid = 0),
      timeout_error     |-> errs.timeout_error \/ ~check_operational_timeout(age) ]

\* check_system_errors: the flags it leaves
check_system_errors(errs, cam, age, frames, valid) ==
    [ camera_error      |-> ~(cam = "open"),
      calibration_error |-> errs.calibration_error,
      processing_error  |-> (frames > ProcessingErrorFrames /\ valid = 0),
      timeout_error     |-> ~check_operational_timeout(age) ]

\* a byte whose detection bit follows the history alone
status_byte_history_only(byte, cam, errs, hist, last) ==
    LET camera_operational == (cam = "open")
        box_detected == (Len(hist) > 0)
        b1 == update_camera_status(byte, camera_operational)
        b2 == update_error_status(b1, has_error(errs))
        b3 == update_box_detected(b2, box_detected)
    IN  IF box_detected /\ last \in BoxTypeNames
        THEN update_box_type(b3, last)
        ELSE update_box_type(b3, "UNKNOWN")

\* update_output_map up to the send: the byte it builds
status_byte(byte, cam, errs, hist, last) ==
    LET camera_operational == (cam = "open")
        box_detected == (Len(hist) > 0 /\ last # None)
        b1 == update_camera_status(byte, camera_operational)
        b2 == update_error_status(b1, has_error(errs))
        b3 == update_box_detected(b2, box_detected)
    IN  IF box_detected /\ last \in BoxTypeNames
        THEN update_box_type(b3, last)
        ELSE update_box_type(b3, "UNKNOWN")

(***************************************************************************)
(* Inputs.                                                                 *)
(***************************************************************************)
\* Edge lengths, in pixels, of the rectangles a scene may hold.  With a 1 cm
\* reference << 38, 40 >> calibrates to 10 px/cm, which makes << 200, 100 >> a
\* 10x20 box and << 200, 200 >> a 20x20 box; with a 2 cm reference it
\* calibrates to -9 px/cm.
Shapes == { << 38, 40 >>, << 200, 100 >>, << 200, 200 >> }
RefShapes == { << 38, 40 >> }
RefSizes == { 1, 2 }

SeqsUpTo(S, n) == UNION { [1..k -> S] : k \in 0..n }
\* The frames of a run: the leftmost accepted rectangle, when there is one, is
\* the reference object (what the left-to-right sort of find_aligned_rectangles
\* is for); the other rectangles are any shapes
Frames == { f \in SeqsUpTo(Shapes, MaxRects) : Len(f) > 0 => f[1] \in RefShapes }

\* What calibracao.txt may hold when a session starts: nothing, or what an
\* earlier session wrote
InitFiles ==
    {NoFile} \cup
    { calibrate_with_reference(s, r, TRUE, FALSE, NoValue, NoFile).calib_file :
        s \in RefShapes, r \in RefSizes }

Keys == { "none", "q", " ", "c" }
AllKeys == Keys \cup { "d", "s", "r", "+", "-" }

ArdUpdateInterval == 1     \* ARD_update_interval = 0.5 s, in ticks of 0.5 s
MinAngleDeviation == 1
MaxAngleDeviation == 45

(***************************************************************************)
(* Initial states.                                                         *)
(***************************************************************************)
InitMaps ==
    /\ output_byte = 0
    /\ output_history = << >>
    /\ since_update = 0
    /\ plc_output_byte = 0
    /\ plc_output_history = << >>
    /\ plc_since_update = 0
    /\ sends = 0

\* ArduinoOutput(simulate=sim) for sim in simulates, the port opening or not
InitArduino(simulates) ==
    /\ \E sim \in simulates, connect_ok \in BOOLEAN :
         /\ simulate = ArduinoOutput_init(sim, connect_ok).simulate
         /\ serial_connection = ArduinoOutput_init(sim, connect_ok).serial_connection
         /\ connect_call = ArduinoOutput_init(sim, connect_ok).connect_call
    /\ last_output = NoValue
    /\ since_status_update = 0
    /\ updates = 0
    /\ write_attempts = 0
    /\ update_call = NoCall

\* BoxMeasurementSystem.__init__, then main() up to the call of run() or of
\* process_frame: the reference size is set from --reference, the video source
\* is opened (or, for --image, there is no camera)
InitSystem(cams, refs, files, videos) ==
    /\ camera \in cams
    /\ is_video_file \in videos
    /\ calibrated = FALSE
    /\ pixels_per_cm = NoValue
    /\ reference_width_cm \in refs
    /\ calib_file \in files
    /\ max_angle_deviation = 10
    /\ box_type_history = << >>
    /\ last_stable_type = None
    /\ stable_detection_count = 0
    /\ frames_processed = 0
    /\ total_boxes = 0
    /\ valid_boxes = 0
    /\ system_errors = [ camera_error |-> FALSE, calibration_error |-> FALSE,
                         processing_error |-> FALSE, timeout_error |-> FALSE ]
    /\ current_detections = << >>
    /\ len_cnts = 0
    /\ calibration_call = NoCall
    /\ read_attempts = 0
    /\ exit_cause = "none"
    /\ paused = FALSE
    /\ since_ARD_update = 0

NoScenario == [ step |-> 0, A |-> None, B |-> None ]

InitPure ==
    /\ in_w = NoValue
    /\ in_h = NoValue
    /\ in_status = NoValue
    /\ out_class = NoValue
    /\ out_packed = NoValue
    /\ plc_out_packed = NoValue
    /\ out_line = NoValue
    /\ out_ppc = NoValue
    /\ in_angle = NoValue
    /\ out_aligned = NoValue

(***************************************************************************)
(* Actions of BoxMeasurementSystem.                                        *)
(***************************************************************************)
\* process_frame(frame) where find_aligned_rectangles returns f.  Each
\* intermediate value is bound once, in the order the code computes it.
process_frame(f, write_ok) ==
    \E frames \in { frames_processed + 1 } :
    \E errs \in { check_system_errors(system_errors, camera, since_update, frames,
                                      valid_boxes) } :
    \E calib \in { reference_step(f, reference_width_cm, write_ok, calibrated,
                                  pixels_per_cm, calib_file) } :
    \E labels \in { classify_boxes(f, calib.calibrated, calib.pixels_per_cm) } :
    \E hist \in { extend_history(box_type_history, labels) } :
    \E st \in { stabilize(labels, last_stable_type, stable_detection_count) } :
    \E byte \in { status_byte(output_byte, camera, errs, hist, st[1]) } :
        /\ frames_processed' = frames
        /\ system_errors' = errs
        /\ calibrated' = calib.calibrated
        /\ pixels_per_cm' = calib.pixels_per_cm
        /\ calib_file' = calib.calib_file
        /\ current_detections' = labels
        /\ len_cnts' = Len(f)
        /\ calibration_call' = calib.call
        /\ box_type_history' = hist
        /\ total_boxes' = IF Len(f) > 1 THEN Len(f) - 1 ELSE 0
        /\ valid_boxes' = Len(labels)
        /\ last_stable_type' = st[1]
        /\ stable_detection_count' = st[2]
        /\ output_byte' = byte
        /\ output_history' = send_to_ARD_history(output_history, byte)
        /\ since_update' = 0

\* update_output_map called on its own (the timed update of run())
update_output_map ==
    LET byte == status_byte(output_byte, camera, system_errors, box_type_history,
                            last_stable_type)
    IN  /\ output_byte' = byte
        /\ output_history' = send_to_ARD_history(output_history, byte)
        /\ since_update' = 0

\* run(): the load of calibracao.txt and the locals set before the loop
Startup ==
    /\ pc = "start"
    /\ LET loaded == load_calibration(calib_file, calibrated, pixels_per_cm)
       IN  /\ calibrated' = loaded[1]
           /\ pixels_per_cm' = loaded[2]
    /\ paused' = FALSE
    /\ since_ARD_update' = 0
    /\ pc' = "frame"
    /\ UNCHANGED << mapVars, plcVars, arduinoVars, sends, camera, is_video_file, reference_width_cm,
                    calib_file, max_angle_deviation, box_type_history, last_stable_type,
                    stable_detection_count, frames_processed, total_boxes, valid_boxes,
                    system_errors, current_detections, len_cnts, calibration_call,
                    read_attempts, exit_cause, pureVars, scen >>

\* a finally clause that leaves the camera as it is
Finally_no_release ==
    /\ camera' = camera
    /\ pc' = "done"

\* The finally clause of run()
Finally ==
    /\ camera' = IF camera = "none" THEN "none" ELSE "released"
    /\ pc' = "done"

\* a read that is repeated after any failure, camera or file
read_frame_always_again(is_video, ret, ret_again) ==
    IF ~ret THEN [ ret |-> ret_again, attempts |-> 2 ] ELSE [ ret |-> ret, attempts |-> 1 ]

\* "Capturar frame": ret is the result of camera.read(), ret_again that of the
\* read that follows the rewind of a video file; the final ret and the number
\* of camera.read() calls
read_frame(is_video, ret, ret_again) ==
    IF ~ret /\ is_video
    THEN [ ret |-> ret_again, attempts |-> 2 ]
    ELSE [ ret |-> ret, attempts |-> 1 ]

\* One pass of the loop up to the end of process_frame.
FrameStepCore(frames, maxFrames) ==
    /\ pc = "frame"
    /\ IF paused
       THEN /\ pc' = "key"
            /\ UNCHANGED << mapVars, sysVars >>
       ELSE \E ret \in BOOLEAN :
            \E ret_again \in (IF ~ret /\ is_video_file THEN BOOLEAN ELSE {ret}) :
            \E rd \in { read_frame(is_video_file, ret, ret_again) } :
              /\ read_attempts' = rd.attempts
              /\ IF ~rd.ret
                 THEN /\ Finally
                      /\ exit_cause' = "read_failure"
                      /\ UNCHANGED << mapVars, is_video_file, calibrated, pixels_per_cm,
                                      reference_width_cm, calib_file, max_angle_deviation,
                                      box_type_history, last_stable_type,
                                      stable_detection_count, frames_processed,
                                      total_boxes, valid_boxes, system_errors,
                                      current_detections, len_cnts, calibration_call,
                                      paused, since_ARD_update >>
                 ELSE /\ frames_processed < maxFrames
                      /\ \E f \in frames :
                         \E write_ok \in (IF Len(f) > 0 /\ ~calibrated THEN BOOLEAN
                                          ELSE {TRUE}) :
                           process_frame(f, write_ok)
                      /\ pc' = "ard"
                      /\ UNCHANGED << camera, is_video_file, reference_width_cm,
                                      max_angle_deviation, exit_cause, paused,
                                      since_ARD_update >>
    /\ UNCHANGED << plcVars, arduinoVars, sends, pureVars >>

FrameStep(frames, maxFrames) ==
    /\ FrameStepCore(frames, maxFrames)
    /\ UNCHANGED scen

\* "Atualizar ARD em intervalos regulares"
ArdStep ==
    /\ pc = "ard"
    /\ IF since_ARD_update >= ArdUpdateInterval
       THEN /\ update_output_map
            /\ since_ARD_update' = 0
       ELSE UNCHANGED << mapVars, since_ARD_update >>
    /\ pc' = "key"
    /\ UNCHANGED << plcVars, arduinoVars, sends, camera, is_video_file, calibrated, pixels_per_cm,
                    reference_width_cm, calib_file, max_angle_deviation, box_type_history,
                    last_stable_type, stable_detection_count, frames_processed,
                    total_boxes, valid_boxes, system_errors, current_detections,
                    len_cnts, calibration_call, read_attempts, exit_cause, paused,
                    pureVars, scen >>

\* a '-' handler that floors the tolerance at 0
angle_key_floor_zero(key, deviation) ==
    IF key = "+" THEN Min(MaxAngleDeviation, deviation + 1)
    ELSE IF key = "-" THEN Max(0, deviation - 1)
    ELSE deviation

\* max_angle_deviation after the handlers of '+' and '-'
angle_key(key, deviation) ==
    IF key = "+" THEN Min(MaxAngleDeviation, deviation + 1)
    ELSE IF key = "-" THEN Max(MinAngleDeviation, deviation - 1)
    ELSE deviation

\* cv2.waitKey and the key handlers
KeyStep(key) ==
    /\ pc = "key"
    /\ IF key = "q"
       THEN /\ Finally
            /\ exit_cause' = "quit"
            /\ UNCHANGED << paused, calibrated, max_angle_deviation >>
       ELSE /\ pc' = "frame"
            /\ camera' = camera
            /\ exit_cause' = exit_cause
            /\ paused' = IF key = " " THEN ~paused ELSE paused
            /\ calibrated' = IF key = "c" THEN FALSE ELSE calibrated
            /\ max_angle_deviation' = angle_key(key, max_angle_deviation)
    /\ UNCHANGED << mapVars, plcVars, arduinoVars, sends, is_video_file, pixels_per_cm,
                    reference_width_cm, calib_file, box_type_history, last_stable_type,
                    stable_detection_count, frames_processed, total_boxes, valid_boxes,
                    system_errors, current_detections, len_cnts, calibration_call,
                    read_attempts, since_ARD_update, pureVars, scen >>

\* main() with --image: one process_frame, no camera, no run()
ImageStep(frames) ==
    /\ pc = "image"
    /\ \E f \in frames :
       \E write_ok \in (IF Len(f) > 0 /\ ~calibrated THEN BOOLEAN ELSE {TRUE}) :
         process_frame(f, write_ok)
    /\ pc' = "done"
    /\ UNCHANGED << plcVars, arduinoVars, sends, camera, is_video_file, reference_width_cm,
                    max_angle_deviation, read_attempts, exit_cause, paused,
                    since_ARD_update, pureVars, scen >>

\* Half a second passes
Tick ==
    /\ pc \in { "start", "frame", "ard", "key", "image" }
    /\ \/ since_update <= OperationalTimeout
       \/ since_ARD_update < ArdUpdateInterval
    /\ since_update' = Min(OperationalTimeout + 1, since_update + 1)
    /\ since_ARD_update' = Min(ArdUpdateInterval, since_ARD_update + 1)
    /\ UNCHANGED << pc, output_byte, output_history, plcVars, arduinoVars, sends, camera, is_video_file,
                    calibrated, pixels_per_cm, reference_width_cm, calib_file,
                    max_angle_deviation, box_type_history, last_stable_type,
                    stable_detection_count, frames_processed, total_boxes, valid_boxes,
                    system_errors, current_detections, len_cnts, calibration_call,
                    read_attempts, exit_cause, paused, pureVars, scen >>

(***************************************************************************)
(* Spec: a run over a camera, or one image (--image), with the clock       *)
(* standing still: every step falls within the half second in which the    *)
(* run started.  SpecTimed adds the clock.                                 *)
(***************************************************************************)
Init ==
    /\ pc \in { "start", "image" }
    /\ InitMaps
    /\ InitArduino({TRUE})
    /\ InitSystem(IF pc = "image" THEN {"none"} ELSE {"open"}, RefSizes, InitFiles,
                  {FALSE})
    /\ InitPure
    /\ scen = NoScenario

Next ==
    \/ Startup
    \/ FrameStep(Frames, MaxFrames)
    \/ ArdStep
    \/ \E key \in Keys : KeyStep(key)
    \/ ImageStep(Frames)

Spec == Init /\ [][Next]_vars

\* The first session on a machine: no calibracao.txt yet
InitFresh ==
    /\ pc \in { "start", "image" }
    /\ InitMaps
    /\ InitArduino({TRUE})
    /\ InitSystem(IF pc = "image" THEN {"none"} ELSE {"open"}, RefSizes, {NoFile},
                  {FALSE})
    /\ InitPure
    /\ scen = NoScenario

SpecFresh == InitFresh /\ [][Next]_vars

(***************************************************************************)
(* SpecTimed: the run of Spec over the frames of at most one rectangle,    *)
(* with the clock.                                                         *)
(***************************************************************************)
TimedFrames == SeqsUpTo(Shapes, 1)

NextTimed ==
    \/ Startup
    \/ FrameStep(TimedFrames, MaxFrames)
    \/ ArdStep
    \/ \E key \in Keys : KeyStep(key)
    \/ ImageStep(TimedFrames)
    \/ Tick

SpecTimed == Init /\ [][NextTimed]_vars

(***************************************************************************)
(* SpecMap: the two status maps driven by one sequence of calls.           *)
(***************************************************************************)
InitMap ==
    /\ pc = "map"
    /\ InitMaps
    /\ InitArduino({TRUE})
    /\ InitSystem({"none"}, {1}, {NoFile}, {FALSE})
    /\ InitPure
    /\ scen = NoScenario

MapUpdateCamera ==
    /\ pc = "map"
    /\ \E v \in BOOLEAN :
         /\ output_byte' = update_camera_status(output_byte, v)
         /\ plc_output_byte' = plc_update_camera_status(plc_output_byte, v)
    /\ UNCHANGED << pc, output_history, since_update, plc_output_history,
                    plc_since_update, sends, arduinoVars,
                    sysVars, pureVars, scen >>

MapUpdateError ==
    /\ pc = "map"
    /\ \E v \in BOOLEAN :
         /\ output_byte' = update_error_status(output_byte, v)
         /\ plc_output_byte' = plc_update_error_status(plc_output_byte, v)
    /\ UNCHANGED << pc, output_history, since_update, plc_output_history,
                    plc_since_update, sends, arduinoVars,
                    sysVars, pureVars, scen >>

MapUpdateDetected ==
    /\ pc = "map"
    /\ \E v \in BOOLEAN :
         /\ output_byte' = update_box_detected(output_byte, v)
         /\ plc_output_byte' = plc_update_box_detected(plc_output_byte, v)
    /\ UNCHANGED << pc, output_history, since_update, plc_output_history,
                    plc_since_update, sends, arduinoVars,
                    sysVars, pureVars, scen >>

MapUpdateType ==
    /\ pc = "map"
    /\ \E t \in BoxTypeArgs :
         /\ output_byte' = update_box_type(output_byte, t)
         /\ plc_output_byte' = plc_update_box_type(plc_output_byte, t)
    /\ UNCHANGED << pc, output_history, since_update, plc_output_history,
                    plc_since_update, sends, arduinoVars,
                    sysVars, pureVars, scen >>

\* send_to_ARD and send_to_plc
MapSend ==
    /\ pc = "map"
    /\ sends < MaxSends
    /\ sends' = sends + 1
    /\ output_history' = send_to_ARD_history(output_history, output_byte)
    /\ since_update' = 0
    /\ plc_output_history' = send_to_plc_history(plc_output_history, plc_output_byte)
    /\ plc_since_update' = 0
    /\ UNCHANGED << pc, output_byte, plc_output_byte, arduinoVars, sysVars, pureVars, scen >>

NextMap ==
    \/ MapUpdateCamera
    \/ MapUpdateError
    \/ MapUpdateDetected
    \/ MapUpdateType
    \/ MapSend

SpecMap == InitMap /\ [][NextMap]_vars

(***************************************************************************)
(* SpecEncode: one status after another is given to the status map and to  *)
(* ArduinoOutput.update_status.                                            *)
(***************************************************************************)
Statuses == [ camera : BOOLEAN, error : BOOLEAN, detected : BOOLEAN,
              box_type : BoxTypeArgs ]

InitEncode ==
    /\ pc = "pure"
    /\ InitMaps
    /\ InitArduino({TRUE})
    /\ InitSystem({"none"}, {1}, {NoFile}, {FALSE})
    /\ in_w = NoValue
    /\ in_h = NoValue
    /\ in_status \in Statuses
    /\ out_class = NoValue
    /\ out_packed = NoValue
    /\ plc_out_packed = NoValue
    /\ out_line = NoValue
    /\ out_ppc = NoValue
    /\ in_angle = NoValue
    /\ out_aligned = NoValue
    /\ scen = NoScenario

\* The four updates of the map, as update_output_map and simulate_ARD_output
\* order them, and the command of update_status for the same status
EncodeStatus ==
    /\ pc = "pure"
    /\ output_byte' =
         update_box_type(
           update_box_detected(
             update_error_status(
               update_camera_status(output_byte, in_status.camera),
               in_status.error),
             in_status.detected),
           in_status.box_type)
    /\ out_packed' = get_output_string(output_byte')
    /\ out_line' = update_status_command(in_status.camera, in_status.error,
                                         in_status.detected, in_status.box_type)
    /\ pc' = "encoded"
    /\ UNCHANGED << output_history, since_update, plcVars, arduinoVars, sends, sysVars, in_w, in_h,
                    in_status, out_class, plc_out_packed, out_ppc, angleVars, scen >>

NextStatus ==
    /\ pc = "encoded"
    /\ in_status' \in Statuses
    /\ pc' = "pure"
    /\ UNCHANGED << mapVars, plcVars, arduinoVars, sends, sysVars, in_w, in_h, out_class,
                    out_packed, plc_out_packed, out_line, out_ppc, angleVars, scen >>

NextEncode ==
    \/ EncodeStatus
    \/ NextStatus

SpecEncode == InitEncode /\ [][NextEncode]_vars

(***************************************************************************)
(* SpecClassify: classify_box on measured sizes, in tenths of a centimetre. *)
(***************************************************************************)
Tenths == { 65, 70, 105, 130, 135, 165, 170, 198, 200, 230, 235, 265, 270, 300,
            330, 335, 465, 470, 500, 530, 535 }
CmInputs == { << n, 10 >> : n \in Tenths } \cup { NoValue }

InitClassify ==
    /\ pc = "pure"
    /\ InitMaps
    /\ InitArduino({TRUE})
    /\ InitSystem({"none"}, {1}, {NoFile}, {FALSE})
    /\ in_w \in CmInputs
    /\ in_h \in CmInputs
    /\ in_status = NoValue
    /\ out_class = NoValue
    /\ out_packed = NoValue
    /\ plc_out_packed = NoValue
    /\ out_line = NoValue
    /\ out_ppc = NoValue
    /\ in_angle = NoValue
    /\ out_aligned = NoValue
    /\ scen = NoScenario

\* classify_box(in_w, in_h) and classify_box(in_h, in_w)
ClassifyCall ==
    /\ pc = "pure"
    /\ out_class' = [ direct  |-> classify_box(in_w, in_h),
                      swapped |-> classify_box(in_h, in_w) ]
    /\ pc' = "classified"
    /\ UNCHANGED << mapVars, plcVars, arduinoVars, sends, sysVars, in_w, in_h, in_status,
                    out_packed, plc_out_packed, out_line, out_ppc, angleVars, scen >>

NextClassify == ClassifyCall

SpecClassify == InitClassify /\ [][NextClassify]_vars

(***************************************************************************)
(* SpecStab: a run whose frames, after a free prefix, have the majority     *)
(* types A, A, A, B, B, B, B, starting where the stable type is not A.      *)
(***************************************************************************)
\* The frames of a scenario hold at most the reference and one box, whose
\* label is then the frame's majority type
ScenFrames == { f \in Frames : Len(f) <= 2 }

MajorityIs(labels, x) == labels # << >> /\ most_common(labels) = x

\* How the scenario position follows a step of the frame loop
ScenAdvance ==
    IF frames_processed' = frames_processed
    THEN scen' = scen
    ELSE \/ /\ scen.step = 0
            /\ frames_processed < MaxScenPrefix
            /\ scen' = scen
         \/ /\ scen.step = 0
            /\ \E a, b \in BoxTypeNames :
                 /\ a # b
                 /\ last_stable_type # a
                 /\ MajorityIs(current_detections', a)
                 /\ scen' = [ step |-> 1, A |-> a, B |-> b ]
         \/ /\ scen.step \in 1..2
            /\ MajorityIs(current_detections', scen.A)
            /\ scen' = [ scen EXCEPT !.step = @ + 1 ]
         \/ /\ scen.step \in 3..6
            /\ MajorityIs(current_detections', scen.B)
            /\ scen' = [ scen EXCEPT !.step = @ + 1 ]

ScenFrameStep ==
    /\ FrameStepCore(ScenFrames, MaxScenPrefix + 7)
    /\ ScenAdvance

NextStab ==
    \/ Startup
    \/ ScenFrameStep
    \/ ArdStep
    \/ \E key \in { "none", "c" } : KeyStep(key)

SpecStab == Init /\ [][NextStab]_vars

(***************************************************************************)
(* SpecHist: a run long enough to fill box_type_history, over three scenes: *)
(* the reference alone, and the reference with three boxes.                *)
(***************************************************************************)
HistFrames == { << << 38, 40 >> >>,
                << << 38, 40 >>, << 200, 100 >>, << 200, 200 >>, << 200, 200 >> >>,
                << << 38, 40 >>, << 200, 200 >>, << 200, 100 >>, << 200, 100 >> >> }

InitHist ==
    /\ pc = "start"
    /\ InitMaps
    /\ InitArduino({TRUE})
    /\ InitSystem({"open"}, {1}, {NoFile}, {FALSE})
    /\ InitPure
    /\ scen = NoScenario

NextHist ==
    \/ Startup
    \/ FrameStep(HistFrames, MaxHistFrames)
    \/ ArdStep
    \/ KeyStep("none")

SpecHist == InitHist /\ [][NextHist]_vars

(***************************************************************************)
(* SpecPersist: a first session calibrates on a reference and writes       *)
(* calibracao.txt; the program is started again and run() loads the file.  *)
(***************************************************************************)
\* Reference sizes whose quotients are exact in thousandths
PersistRefSizes == { 1, 2, 4, 5, 8 }
\* Edges, in pixels, of the reference rectangle
PersistRefs == { << a, a + 2 >> : a \in 29..60 }

InitPersist ==
    /\ pc = "session1"
    /\ InitMaps
    /\ InitArduino({TRUE})
    /\ InitSystem({"open"}, PersistRefSizes, {NoFile}, {FALSE})
    /\ in_w \in PersistRefs
    /\ in_h = NoValue
    /\ in_status = NoValue
    /\ out_class = NoValue
    /\ out_packed = NoValue
    /\ plc_out_packed = NoValue
    /\ out_line = NoValue
    /\ out_ppc = NoValue
    /\ in_angle = NoValue
    /\ out_aligned = NoValue
    /\ scen = NoScenario

\* calibrate_with_reference on the reference in_w, the file being writable
CalibrateAndWrite ==
    /\ pc = "session1"
    /\ \E c \in { calibrate_with_reference(in_w, reference_width_cm, TRUE, calibrated,
                                           pixels_per_cm, calib_file) } :
         /\ calibrated' = c.calibrated
         /\ pixels_per_cm' = c.pixels_per_cm
         /\ calib_file' = c.calib_file
         /\ out_ppc' = c.pixels_per_cm
    /\ pc' = "written"
    /\ UNCHANGED << mapVars, plcVars, arduinoVars, sends, camera, is_video_file, reference_width_cm,
                    max_angle_deviation, box_type_history, last_stable_type,
                    stable_detection_count, frames_processed, total_boxes, valid_boxes,
                    system_errors, current_detections, len_cnts, calibration_call,
                    read_attempts, exit_cause, paused, since_ARD_update, in_w, in_h,
                    in_status, out_class, out_packed, plc_out_packed, out_line, angleVars, scen >>

\* The program ends and is started again: a new BoxMeasurementSystem, the
\* file staying on disk
Restart ==
    /\ pc = "written"
    /\ calibrated' = FALSE
    /\ pixels_per_cm' = NoValue
    /\ pc' = "start"
    /\ UNCHANGED << mapVars, plcVars, arduinoVars, sends, camera, is_video_file, reference_width_cm,
                    calib_file, max_angle_deviation, box_type_history, last_stable_type,
                    stable_detection_count, frames_processed, total_boxes, valid_boxes,
                    system_errors, current_detections, len_cnts, calibration_call,
                    read_attempts, exit_cause, paused, since_ARD_update, pureVars, scen >>

NextPersist ==
    \/ CalibrateAndWrite
    \/ Restart
    \/ Startup

SpecPersist == InitPersist /\ [][NextPersist]_vars

(***************************************************************************)
(* SpecLong: a run of more than 100 frames.  A frame shows nothing, the     *)
(* reference alone, or, in the first frames only, the reference and a       *)
(* 10x20 box.                                                               *)
(***************************************************************************)
LongEmptyFrames == { << >>, << << 38, 40 >> >> }
LongFrames == LongEmptyFrames \cup { << << 38, 40 >>, << 200, 100 >> >> }

NextLong ==
    \/ Startup
    \/ FrameStep(IF frames_processed < MaxLongBoxFrames THEN LongFrames
                 ELSE LongEmptyFrames, MaxLongFrames)
    \/ ArdStep
    \/ KeyStep("none")

SpecLong == InitHist /\ [][NextLong]_vars

(***************************************************************************)
(* SpecExit: a run over a camera or a video file, with every way out of    *)
(* the loop: the quit key, a failed read, an exception raised while a      *)
(* frame is processed, a keyboard interrupt.                               *)
(***************************************************************************)
InitExit ==
    /\ pc = "start"
    /\ InitMaps
    /\ InitArduino({TRUE})
    /\ InitSystem({"open"}, RefSizes, InitFiles, BOOLEAN)
    /\ InitPure
    /\ scen = NoScenario

\* process_frame raises in preprocess_frame (an OpenCV error on the frame),
\* after the frame was counted and the errors checked; the exception passes
\* the "except KeyboardInterrupt" clause, the finally clause runs and run()
\* propagates it
FrameRaises ==
    /\ pc = "frame"
    /\ ~paused
    /\ frames_processed < MaxFrames
    /\ read_attempts' \in (IF is_video_file THEN {1, 2} ELSE {1})
    /\ frames_processed' = frames_processed + 1
    /\ system_errors' = check_system_errors(system_errors, camera, since_update,
                                            frames_processed + 1, valid_boxes)
    /\ Finally
    /\ exit_cause' = "exception"
    /\ UNCHANGED << mapVars, plcVars, arduinoVars, sends, is_video_file, calibrated, pixels_per_cm,
                    reference_width_cm, calib_file, max_angle_deviation,
                    box_type_history, last_stable_type, stable_detection_count,
                    total_boxes, valid_boxes, current_detections, len_cnts,
                    calibration_call, paused, since_ARD_update, pureVars, scen >>

\* KeyboardInterrupt inside the loop: the except clause prints, the finally
\* clause runs and run() returns
Interrupt ==
    /\ pc \in { "frame", "ard", "key" }
    /\ Finally
    /\ exit_cause' = "interrupt"
    /\ UNCHANGED << mapVars, plcVars, arduinoVars, sends, is_video_file, calibrated, pixels_per_cm,
                    reference_width_cm, calib_file, max_angle_deviation,
                    box_type_history, last_stable_type, stable_detection_count,
                    frames_processed, total_boxes, valid_boxes, system_errors,
                    current_detections, len_cnts, calibration_call, read_attempts,
                    paused, since_ARD_update, pureVars, scen >>

NextExit ==
    \/ Startup
    \/ FrameStep(TimedFrames, MaxFrames)
    \/ FrameRaises
    \/ ArdStep
    \/ \E key \in Keys : KeyStep(key)
    \/ Interrupt

SpecExit == InitExit /\ [][NextExit]_vars

(***************************************************************************)
(* SpecEmit: enough emissions to fill output_history, with the clock.      *)
(* Either the run emits, frame after frame and on its timer, or a driver   *)
(* writes one status after another to the two status maps and sends it.    *)
(***************************************************************************)
\* The first three statuses simulate_ARD_output writes
EmitStatuses ==
    { [ camera |-> TRUE, error |-> FALSE, detected |-> FALSE, box_type |-> "UNKNOWN" ],
      [ camera |-> TRUE, error |-> TRUE, detected |-> FALSE, box_type |-> "UNKNOWN" ],
      [ camera |-> TRUE, error |-> FALSE, detected |-> TRUE, box_type |-> "10x20" ] }

\* The scenes of the run: nothing, or the reference and a 10x20 box
EmitFrames == { << >>, << << 38, 40 >>, << 200, 100 >> >> }

InitEmit ==
    /\ pc \in { "start", "map" }
    /\ InitMaps
    /\ InitArduino({TRUE})
    /\ InitSystem({"open"}, {1}, {NoFile}, {FALSE})
    /\ InitPure
    /\ scen = NoScenario

\* The four updates and the send, on ARDOutputMap and on PLCOutputMap
MapEmit ==
    /\ pc = "map"
    /\ sends < MaxEmissions
    /\ \E st \in EmitStatuses :
       \E byte \in { update_box_type(
                       update_box_detected(
                         update_error_status(
                           update_camera_status(output_byte, st.camera), st.error),
                         st.detected),
                       st.box_type) } :
       \E plc_byte \in { plc_update_box_type(
                           plc_update_box_detected(
                             plc_update_error_status(
                               plc_update_camera_status(plc_output_byte, st.camera),
                               st.error),
                             st.detected),
                           st.box_type) } :
         /\ output_byte' = byte
         /\ output_history' = send_to_ARD_history(output_history, byte)
         /\ since_update' = 0
         /\ plc_output_byte' = plc_byte
         /\ plc_output_history' = send_to_plc_history(plc_output_history, plc_byte)
         /\ plc_since_update' = 0
    /\ sends' = sends + 1
    /\ UNCHANGED << pc, arduinoVars, sysVars, pureVars, scen >>

\* Half a second passes for the two maps
MapTick ==
    /\ pc = "map"
    /\ since_update <= OperationalTimeout
    /\ since_update' = since_update + 1
    /\ plc_since_update' = plc_since_update + 1
    /\ UNCHANGED << pc, output_byte, output_history, plc_output_byte,
                    plc_output_history, sends, arduinoVars, sysVars, pureVars, scen >>

NextEmit ==
    \/ Startup
    \/ FrameStep(EmitFrames, MaxEmissions)
    \/ ArdStep
    \/ KeyStep("none")
    \/ Tick
    \/ MapEmit
    \/ MapTick

SpecEmit == InitEmit /\ [][NextEmit]_vars

(***************************************************************************)
(* SpecAngle: a run in which the operator moves max_angle_deviation with    *)
(* the + and - keys and each pass of the loop hands one contour to         *)
(* is_aligned_rectangle.                                                   *)
(***************************************************************************)
\* The angles cv2.minAreaRect reports: [-90, 0) or (0, 90], by the version of
\* OpenCV
RawAngles == (-90 * AngleScale) .. (90 * AngleScale)

\* is_aligned_rectangle up to the alignment test, on a contour of angle raw
AlignmentCall ==
    /\ pc = "frame"
    /\ \E raw \in RawAngles :
       \E angle \in { normalize_angle(raw) } :
         /\ in_angle' = raw
         /\ out_aligned' = [ angle |-> angle,
                             passes |-> angle_within_deviation(angle,
                                                               max_angle_deviation) ]
    /\ pc' = "key"
    /\ UNCHANGED << mapVars, plcVars, arduinoVars, sends, sysVars, in_w, in_h,
                    in_status, out_class, out_packed, plc_out_packed, out_line, out_ppc, scen >>

NextAngle ==
    \/ Startup
    \/ AlignmentCall
    \/ \E key \in { "+", "-" } : KeyStep(key)

SpecAngle == InitHist /\ [][NextAngle]_vars

(***************************************************************************)
(* SpecLeftmost: a run over scenes in which the leftmost rectangle may be   *)
(* a box: a box alone, two boxes, or the reference and a box.              *)
(***************************************************************************)
BoxShapes == Shapes \ RefShapes
LeftmostFrames ==
    { << b >> : b \in BoxShapes } \cup (Shapes \X BoxShapes)

NextLeftmost ==
    \/ Startup
    \/ FrameStep(LeftmostFrames, MaxFrames)
    \/ ArdStep
    \/ \E key \in { "none", "c" } : KeyStep(key)

SpecLeftmost == InitHist /\ [][NextLeftmost]_vars

(***************************************************************************)
(* SpecNonPositive: a run over reference objects whose smaller edge, by    *)
(* the reference size, is 28 px/cm or less, which calibrate to a scale of  *)
(* zero or below, and over the files such calibrations wrote.              *)
(***************************************************************************)
\* With the reference sizes 1 and 2: 0, -14, 10 and -9 px/cm
NonPositiveRefs == { << 28, 30 >>, << 38, 40 >> }
NonPositiveFrames ==
    { << >> } \cup { << r >> : r \in NonPositiveRefs }
              \cup { << r, << 200, 100 >> >> : r \in NonPositiveRefs }
NonPositiveFiles ==
    {NoFile} \cup
    { calibrate_with_reference(s, r, TRUE, FALSE, NoValue, NoFile).calib_file :
        s \in NonPositiveRefs, r \in RefSizes }

InitNonPositive ==
    /\ pc = "start"
    /\ InitMaps
    /\ InitArduino({TRUE})
    /\ InitSystem({"open"}, RefSizes, NonPositiveFiles, {FALSE})
    /\ InitPure
    /\ scen = NoScenario

NextNonPositive ==
    \/ Startup
    \/ FrameStep(NonPositiveFrames, MaxScaleFrames)
    \/ ArdStep
    \/ \E key \in { "none", "c" } : KeyStep(key)
    \/ Tick

SpecNonPositive == InitNonPositive /\ [][NextNonPositive]_vars

(***************************************************************************)
(* SpecPause: a run of more than 100 frames that shows the reference alone *)
(* for its first 100 frames; from then on a frame may show a 10x20 box too *)
(* and the operator may pause and resume.  Time passes only while the run  *)
(* is paused.                                                              *)
(***************************************************************************)
PauseFrames == { << << 38, 40 >> >>, << << 38, 40 >>, << 200, 100 >> >> }

\* Half a second passes while the loop is paused
PausedTick ==
    /\ paused
    /\ Tick

NextPause ==
    \/ Startup
    \/ FrameStep(IF frames_processed < ProcessingErrorFrames
                 THEN { << << 38, 40 >> >> } ELSE PauseFrames, MaxPauseFrames)
    \/ ArdStep
    \/ \E key \in (IF frames_processed < ProcessingErrorFrames THEN { "none" }
                   ELSE { "none", " " }) : KeyStep(key)
    \/ PausedTick

SpecPause == InitHist /\ [][NextPause]_vars

(***************************************************************************)
(* SpecSerial: one ArduinoOutput, built in simulation or on a port, given  *)
(* one status after another while time passes; a write to the port may     *)
(* raise.                                                                  *)
(***************************************************************************)
InitSerial ==
    /\ pc = "serial"
    /\ InitMaps
    /\ InitArduino(BOOLEAN)
    /\ InitSystem({"none"}, {1}, {NoFile}, {FALSE})
    /\ InitPure
    /\ scen = NoScenario

\* update_status(camera, error, detected, box_type)
UpdateStatus ==
    /\ pc = "serial"
    /\ updates < MaxUpdates
    /\ \E st \in Statuses :
       \E write_ok \in (IF ~simulate /\ serial_connection # None THEN BOOLEAN
                        ELSE {TRUE}) :
       \E r \in { update_status(simulate, serial_connection, last_output,
                                since_status_update, st.camera, st.error,
                                st.detected, st.box_type, write_ok) } :
         /\ in_status' = st
         /\ last_output' = r.last_output
         /\ since_status_update' = r.since
         /\ update_call' = r.call
         /\ write_attempts' = IF r.call.write = "skipped" THEN write_attempts
                              ELSE write_attempts + 1
    /\ updates' = updates + 1
    /\ UNCHANGED << pc, mapVars, plcVars, sends, sysVars, in_w, in_h, out_class,
                    out_packed, plc_out_packed, out_line, out_ppc, angleVars, simulate,
                    serial_connection, connect_call, scen >>

\* Half a second passes for the ArduinoOutput
SerialTick ==
    /\ pc = "serial"
    /\ since_status_update < MaxStatusAge
    /\ since_status_update' = since_status_update + 1
    /\ UNCHANGED << pc, mapVars, plcVars, sends, sysVars, pureVars, simulate,
                    serial_connection, last_output, updates, write_attempts,
                    update_call, connect_call, scen >>

NextSerial ==
    \/ UpdateStatus
    \/ SerialTick

SpecSerial == InitSerial /\ [][NextSerial]_vars

(***************************************************************************)
(* Properties of the stabilisation and of the calibration, under Spec.     *)
(***************************************************************************)
\* A step that is one call of process_frame
FrameProcessed == frames_processed' = frames_processed + 1

\* x is a label of labels that no other label outnumbers
IsMostFrequent(labels, x) ==
    /\ CountOf(labels, x) > 0
    /\ \A i \in 1..Len(labels) : CountOf(labels, labels[i]) <= CountOf(labels, x)

\* The labels of labels with the largest count
TiedLabels(labels) == { labels[i] : i \in { j \in 1..Len(labels) : IsMostFrequent(labels, labels[j]) } }

\* Among the most frequent labels, the one declared first in the catalog
CatalogFirstTied(labels) ==
    box_types[CHOOSE i \in 1..Len(box_types) :
                /\ box_types[i].name \in TiedLabels(labels)
                /\ \A j \in 1..(i - 1) : box_types[j].name \notin TiedLabels(labels)].name

\* Among the most frequent labels, the one whose first rectangle is leftmost
LeftmostTied(labels) ==
    labels[CHOOSE i \in 1..Len(labels) :
             /\ labels[i] \in TiedLabels(labels)
             /\ \A j \in 1..(i - 1) : labels[j] \notin TiedLabels(labels)]

C5_ClearIsImmediate ==
    (frames_processed > 0 /\ current_detections = << >>) =>
        /\ stable_detection_count = 0
        /\ last_stable_type = None
        /\ Bit(output_byte, 2) = 0
        /\ Bit(output_byte, 3) = 0 /\ Bit(output_byte, 4) = 0
        /\ Len(output_history) > 0
        /\ output_history[Len(output_history)] = output_byte

\* C5 witness: a frame with no valid classification came right after a frame
\* that had set a stable type
C5_Witness ==
    /\ frames_processed = 2
    /\ current_detections = << >>
    /\ box_type_history # << >>
    /\ Len(output_history) = 2
    /\ Bit(output_history[1], 2) = 1
    /\ last_stable_type = None

C10_CalibratedImpliesPositive ==
    calibrated => (pixels_per_cm # NoValue /\ pixels_per_cm[1] > 0)

(***************************************************************************)
(* Properties of the status maps, under SpecMap.                           *)
(***************************************************************************)
\* C1: after any sequence of updates and sends, bits 5, 6 and 7 of
\* output_byte are zero, in ARDOutputMap and in PLCOutputMap.
C1_ReservedBitsZero ==
    /\ output_byte \in 0..255
    /\ Bit(output_byte, 5) = 0 /\ Bit(output_byte, 6) = 0 /\ Bit(output_byte, 7) = 0
    /\ plc_output_byte \in 0..255
    /\ Bit(plc_output_byte, 5) = 0 /\ Bit(plc_output_byte, 6) = 0
    /\ Bit(plc_output_byte, 7) = 0

\* C1 witness: every used bit was set and the byte was sent
C1_Witness ==
    /\ pc = "map"
    /\ output_byte = 31
    /\ plc_output_byte = 31
    /\ output_history = << 31 >>

(***************************************************************************)
(* Properties of the two encodings, under SpecEncode.                      *)
(***************************************************************************)
\* The fields of a received line "c:e:d:t0:t1:t2\n"
LineFields(line) == [ i \in 1..6 |-> IF line[2 * i - 1] = "1" THEN 1 ELSE 0 ]

\* The type a receiver reads from the three type pins (D5 = t0 the least
\* significant), by the table of ArduinoOutput.type_codes
LineType(line) ==
    LET f == LineFields(line)
        code == f[4] + 2 * f[5] + 4 * f[6]
    IN  CASE code = 1 -> "10x20" [] code = 2 -> "20x20" [] code = 4 -> "30x50"
          [] code = 0 -> "NONE" [] code = 7 -> "UNKNOWN" [] OTHER -> "INVALID"

\* C2 as stated: for every status, the packed byte and the line decode to the
\* same camera, error, detected and type, box_type UNKNOWN and NONE included.
C2_PackedAndLineAgree ==
    pc = "encoded" =>
        /\ out_packed.camera = LineFields(out_line)[1]
        /\ out_packed.error = LineFields(out_line)[2]
        /\ out_packed.detection = LineFields(out_line)[3]
        /\ out_packed.type = LineType(out_line)

(***************************************************************************)
(* Properties of classify_box, under SpecClassify.                         *)
(***************************************************************************)
\* |q - ref| <= 3 for q in centimetres, q = << n, d >>
Near(q, ref) == q[1] - ref * q[2] <= 3 * q[2] /\ ref * q[2] - q[1] <= 3 * q[2]

\* The catalog of the claim, in its order: name, reference width and height
ClaimCatalog == << << "10x20", 10, 20 >>, << "20x20", 20, 20 >>, << "30x50", 30, 50 >> >>

\* Entry e of the catalog is matched directly or swapped
Paired(e, w, h) ==
    \/ Near(w, e[2]) /\ Near(h, e[3])
    \/ Near(w, e[3]) /\ Near(h, e[2])

\* C8: with non-null inputs classify_box returns (T, valid) for the first
\* catalog entry T, in the order 10x20, 20x20, 30x50, whose direct or swapped
\* pairing holds within 3 cm, boundaries included, and (UNKNOWN, invalid)
\* when none does; 10.5 by 19.8 is a valid 10x20.
C8_FirstMatchingEntry ==
    (pc = "classified" /\ in_w # NoValue /\ in_h # NoValue) =>
        /\ \A i \in 1..3 :
             (Paired(ClaimCatalog[i], in_w, in_h)
              /\ \A j \in 1..(i - 1) : ~Paired(ClaimCatalog[j], in_w, in_h))
             => out_class.direct = [ type |-> ClaimCatalog[i][1], valid |-> TRUE ]
        /\ (\A i \in 1..3 : ~Paired(ClaimCatalog[i], in_w, in_h))
             => out_class.direct = [ type |-> "UNKNOWN", valid |-> FALSE ]
        /\ (in_w = << 105, 10 >> /\ in_h = << 198, 10 >>)
             => out_class.direct = [ type |-> "10x20", valid |-> TRUE ]

\* C8 witness: 10.5 by 19.8 was classified
C8_Witness ==
    /\ pc = "classified"
    /\ in_w = << 105, 10 >>
    /\ in_h = << 198, 10 >>
    /\ out_class.direct.type = "10x20"

\* C9: for non-null w and h, classify_box(w, h) and classify_box(h, w) return
\* the same type and the same validity.
C9_SwapInvariant ==
    (pc = "classified" /\ in_w # NoValue /\ in_h # NoValue) =>
        /\ out_class.direct.type = out_class.swapped.type
        /\ out_class.direct.valid = out_class.swapped.valid

\* C9 witness: 23.0 by 7.0 matches 10x20 through the swapped pairing only
C9_Witness ==
    /\ pc = "classified"
    /\ in_w = << 230, 10 >>
    /\ in_h = << 70, 10 >>
    /\ out_class.direct = [ type |-> "10x20", valid |-> TRUE ]
    /\ out_class.swapped = [ type |-> "10x20", valid |-> TRUE ]

(***************************************************************************)
(* Properties of the driven scenario, under SpecStab.                      *)
(***************************************************************************)
\* C3 as stated: after the frames A, A, A, B the stable type is B and the
\* count 1; after three more B frames the count is 3, the stable type having
\* been B after each.
C3_CountThreeAfterThreeMore ==
    /\ scen.step = 4 => (last_stable_type = scen.B /\ stable_detection_count = 1)
    /\ scen.step \in 5..7 => last_stable_type = scen.B
    /\ scen.step = 7 => stable_detection_count = 3

\* C3 amended: after the frames A, A, A, B the stable type is B and the count
\* 1; after three more B frames the count is 4 (it is 3 after two more), the
\* stable type having been B after each.
C3_CountFourAfterThreeMore ==
    /\ scen.step \in 1..3 => (last_stable_type = scen.A /\ stable_detection_count = scen.step)
    /\ scen.step = 4 => (last_stable_type = scen.B /\ stable_detection_count = 1)
    /\ scen.step \in 5..7 => last_stable_type = scen.B
    /\ scen.step = 6 => stable_detection_count = 3
    /\ scen.step = 7 => stable_detection_count = 4

\* C3 witness: the seven frames were processed
C3_Witness ==
    /\ scen.step = 7
    /\ scen.A = "10x20"
    /\ scen.B = "20x20"
    /\ last_stable_type = "20x20"
    /\ stable_detection_count = 4

(***************************************************************************)
(* Properties of box_type_history, under SpecHist.                         *)
(***************************************************************************)
\* The last n elements of s
LastN(s, n) == IF Len(s) <= n THEN s ELSE SubSeq(s, Len(s) - n + 1, Len(s))

\* C7 as stated: a frame with a valid classification appends exactly one
\* label, its majority type; a frame with none appends nothing; the history
\* holds at most 20 labels and drops the oldest when full.
C7_OneLabelPerFrame ==
    [][ FrameProcessed =>
          /\ box_type_history' =
               IF current_detections' = << >> THEN box_type_history
               ELSE LastN(Append(box_type_history, last_stable_type'), 20)
          /\ Len(box_type_history') <= 20 ]_vars

\* C7 amended: a frame appends the label of each of its valid
\* classifications, left to right (so as many labels as it has valid
\* rectangles); a frame with none appends nothing; the history holds at most
\* 20 labels and drops the oldest when full.
C7_OneLabelPerValidRectangle ==
    [][ FrameProcessed =>
          /\ box_type_history' = LastN(box_type_history \o current_detections', 20)
          /\ Len(box_type_history') <= 20 ]_vars

\* C7 witness: the seventh frame of three valid rectangles found 18 labels
\* in the history and left 20
C7_Witness ==
    /\ frames_processed = 7
    /\ Len(current_detections) = 3
    /\ Len(box_type_history) = 20
    /\ box_type_history[1] = "20x20"
    /\ box_type_history[2] = "20x20"
    /\ box_type_history[3] = "20x20"

(***************************************************************************)
(* Properties of the calibration.                                          *)
(***************************************************************************)
\* calibrate_with_reference was called in the last frame and returned None
CalibrationFailed == calibration_call # NoCall /\ calibration_call[2] = "None"

\* C11 as stated: whenever calibrate_with_reference fails (returns None, the
\* failure of the file write included), calibrated is false afterwards, and
\* the next frame with an accepted reference rectangle calls it again.
C11_FailureLeavesUncalibrated ==
    [][ /\ (FrameProcessed /\ CalibrationFailed') => ~calibrated'
        /\ (FrameProcessed /\ CalibrationFailed /\ len_cnts' > 0)
             => calibration_call' # NoCall ]_vars

\* C12: a frame that starts with calibrated = true leaves pixels_per_cm and
\* the calibration file as they were and does not call the calibration; the
\* calibration is called only in a frame that starts with calibrated = false
\* and has an accepted leftmost rectangle; such a frame, also after the
\* operator cleared calibrated, recomputes pixels_per_cm from that rectangle
\* and sets calibrated to true.
C12_CalibratesOnlyWhenUncalibrated ==
    [][ FrameProcessed =>
          /\ calibrated =>
               /\ calibrated'
               /\ pixels_per_cm' = pixels_per_cm
               /\ calib_file' = calib_file
               /\ calibration_call' = NoCall
          /\ calibration_call' # NoCall => (~calibrated /\ len_cnts' > 0)
          /\ (~calibrated /\ len_cnts' > 0) =>
               /\ calibration_call' # NoCall
               /\ calibrated'
               /\ \E e \in { calibration_call'[1] } :
                    pixels_per_cm' =
                      << ((IF e[1] < e[2] THEN e[1] ELSE e[2]) * 1000)
                            \div reference_width_cm - 28000 >> ]_vars

\* C12 witness: a run that loaded -9.00 px/cm at startup and so began
\* calibrated has, after the operator's reset, calibrated again, to 10 px/cm
C12_Witness ==
    /\ camera = "open"
    /\ frames_processed = 2
    /\ calibrated
    /\ pixels_per_cm = << 10000 >>
    /\ calibration_call = << << 38, 40 >>, "None" >>
    /\ calib_file = << -900 >>

(***************************************************************************)
(* Properties of the persisted calibration, under SpecPersist.             *)
(***************************************************************************)
\* C13: for every pixels_per_cm a calibration computed and wrote with two
\* decimals, the load at the next startup yields calibrated = true and the
\* written value rounded to two decimals: a whole number of hundredths that
\* differs from the computed value by at most 0.005.
C13_ReloadRoundsToTwoDecimals ==
    pc = "frame" =>
        /\ calibrated
        /\ pixels_per_cm # NoValue
        /\ pixels_per_cm[1] % 10 = 0
        /\ pixels_per_cm[1] - out_ppc[1] <= 5
        /\ out_ppc[1] - pixels_per_cm[1] <= 5

\* C13 witness: 39 px / 8 cm - 28 = -23.125 was written as -23.12 and loaded
C13_Witness ==
    /\ pc = "frame"
    /\ out_ppc = << -23125 >>
    /\ calib_file = << -2312 >>
    /\ pixels_per_cm = << -23120 >>
    /\ calibrated

(***************************************************************************)
(* Properties of the error flags.                                          *)
(***************************************************************************)
\* C14 as stated: after the check_system_errors of a frame, processing_error
\* is true exactly when more than 100 frames have been processed and no frame
\* of the session so far had a valid classification (box_type_history, which
\* nothing clears, is still empty); a session in which an earlier frame had a
\* valid classification never gets processing_error = true.  Checked under
\* SpecLong.
C14_ProcessingErrorOnlyWithoutAnyValid ==
    [][ FrameProcessed =>
          (system_errors'.processing_error
             <=> (frames_processed' > 100 /\ box_type_history = << >>)) ]_vars

\* C15: if the first 101 processed frames all have zero valid
\* classifications, then with the 101st frame processing_error is true and
\* the status emitted in that frame has the error bit (bit 1) set.
C15_ErrorAtFrame101 ==
    (frames_processed = 101 /\ box_type_history = << >>) =>
        /\ system_errors.processing_error
        /\ Bit(output_byte, 1) = 1
        /\ output_history # << >>
        /\ Bit(output_history[Len(output_history)], 1) = 1

\* C15 witness: the 101st frame of a calibrated run without any valid
\* classification was processed, the camera being open
C15_Witness ==
    /\ frames_processed = 101
    /\ pc = "ard"
    /\ camera = "open"
    /\ calibrated
    /\ box_type_history = << >>
    /\ system_errors = [ camera_error |-> FALSE, calibration_error |-> FALSE,
                         processing_error |-> TRUE, timeout_error |-> FALSE ]
    /\ output_byte = 3

\* C16: in every status emitted by update_output_map the error bit equals
\* the OR of camera_error, timeout_error, processing_error and
\* calibration_error as they stand then (the flags change only inside
\* process_frame, which emits before it returns); calibration_error is false
\* in every reachable state.  Checked under SpecTimed.
C16_ErrorBitIsOrOfFlags ==
    /\ ~system_errors.calibration_error
    /\ output_history # << >> =>
         /\ output_history[Len(output_history)] = output_byte
         /\ Bit(output_byte, 1) =
              (IF \/ system_errors.camera_error
                  \/ system_errors.timeout_error
                  \/ system_errors.processing_error
                  \/ system_errors.calibration_error
               THEN 1 ELSE 0)

\* C16 witness: a status whose error bit comes from timeout_error alone
C16_Witness ==
    /\ system_errors = [ camera_error |-> FALSE, calibration_error |-> FALSE,
                         processing_error |-> FALSE, timeout_error |-> TRUE ]
    /\ output_history # << >>
    /\ Bit(output_history[Len(output_history)], 1) = 1

(***************************************************************************)
(* Properties of the emission times, under SpecTimed.                      *)
(***************************************************************************)
\* A step in which send_to_ARD is called after an earlier call
EmitsAgain ==
    /\ output_history # << >>
    /\ FrameProcessed \/ output_history' # output_history

\* C17 as stated: for any two consecutive emissions made while the run loop
\* processes frames, the second is at least 0.5 s (one tick) after the first.
C17_EmissionsHalfSecondApart ==
    [][ EmitsAgain => since_update >= 1 ]_vars

\* C18: the error check of a frame sets timeout_error exactly when strictly
\* more than 2.0 s (4 ticks) have passed since the last emission, or since
\* construction when nothing was emitted; every emission resets
\* last_update_time; so no frame whose check comes at most 2.0 s after the
\* previous emission sets timeout_error.
C18_TimeoutStrictlyAfterTwoSeconds ==
    [][ /\ FrameProcessed => (system_errors'.timeout_error <=> since_update > 4)
        /\ (FrameProcessed \/ output_history' # output_history) => since_update' = 0
      ]_vars

\* C18 witness: a frame was processed more than 2.0 s after the last emission
C18_Witness ==
    /\ frames_processed = 2
    /\ system_errors.timeout_error
    /\ since_update = 0
    /\ Len(output_history) = 2
    /\ Bit(output_history[1], 1) = 0
    /\ Bit(output_history[2], 1) = 1

(***************************************************************************)
(* Properties of the ways out of the run loop, under SpecExit.             *)
(***************************************************************************)
\* C19: on every way out of the run loop (quit key, failed read, exception
\* raised while a frame is processed, keyboard interrupt) the camera is
\* released by the step that ends run(), whether run() returns or propagates
\* the exception.  (run() holds no hardware connection.)
C19_CameraReleasedOnEveryExit ==
    /\ exit_cause \in { "none", "quit", "read_failure", "exception", "interrupt" }
    /\ exit_cause = "none" => (pc # "done" /\ camera = "open")
    /\ exit_cause # "none" => (pc = "done" /\ camera = "released")

\* C19 witness: run() was left by an exception raised in its second frame
C19_Witness ==
    /\ exit_cause = "exception"
    /\ frames_processed = 2
    /\ pc = "done"
    /\ camera = "released"

\* C20 as stated: when a frame read fails, no second read is attempted in
\* that iteration, for a camera and for a video file alike; the failure ends
\* the iteration and no frame is processed in it.
C20_NoSecondRead ==
    [][ (exit_cause = "none" /\ exit_cause' = "read_failure") =>
          /\ read_attempts' = 1
          /\ frames_processed' = frames_processed ]_vars

\* C20 amended: with a camera source a pass of the loop reads once, and a
\* failed read is final; with a video file source a failed read is followed
\* by a rewind and exactly one more read, and only the failure of that
\* second read is final.  A final failure ends the loop, and no frame is
\* processed and no status emitted in that pass.
C20_SecondReadOnlyForVideoFile ==
    [][ /\ ~is_video_file => read_attempts' <= 1
        /\ read_attempts' <= 2
        /\ (exit_cause = "none" /\ exit_cause' = "read_failure") =>
             /\ read_attempts' = (IF is_video_file THEN 2 ELSE 1)
             /\ frames_processed' = frames_processed
             /\ output_history' = output_history
             /\ pc' = "done" ]_vars

\* C20 witness: the read of a video file failed, and failed again after the
\* rewind
C20_Witness ==
    /\ exit_cause = "read_failure"
    /\ is_video_file
    /\ read_attempts = 2
    /\ pc = "done"

(***************************************************************************)
(* Properties of ArduinoOutput, under SpecSerial.                          *)
(***************************************************************************)
\* The dict update_status stores for a status
StoredStatus(st) ==
    [ camera |-> st.camera, error |-> st.error, detection |-> st.detected,
      type |-> st.box_type, type_code |-> type_code(st.box_type),
      command |-> SubSeq(update_status_command(st.camera, st.error, st.detected,
                                               st.box_type), 1, 11) ]

\* C21: when the serial write fails inside update_status, the call returns
\* False without raising, last_output holds the new status and
\* last_update_time is refreshed, as for a successful write; and the call
\* that follows a failed write attempts the write again.
C21_WriteFailureIsContained ==
    [][ updates' = updates + 1 =>
          /\ update_call'.write \in { "ok", "failed" } =>
               /\ update_call'.returned =
                    (IF update_call'.write = "ok" THEN "True" ELSE "False")
               /\ last_output' = StoredStatus(in_status')
               /\ since_status_update' = 0
          /\ (update_call # NoCall /\ update_call.write = "failed") =>
               /\ update_call'.write \in { "ok", "failed" }
               /\ write_attempts' = write_attempts + 1 ]_vars

\* C21 witness: a write failed after time had passed, and the next call
\* wrote again
C21_Witness ==
    /\ updates = 3
    /\ write_attempts = 3
    /\ update_call.write = "failed"
    /\ last_output.type = "UNKNOWN"
    /\ since_status_update = 0

(***************************************************************************)
(* Properties of the packed byte and of the command line, under SpecEncode. *)
(***************************************************************************)
\* The 2-bit code of a type in the packed byte, and the name of a code
PackedCode(box_type) ==
    CASE box_type = "10x20" -> 1 [] box_type = "20x20" -> 2
      [] box_type = "30x50" -> 3 [] OTHER -> 0
PackedName(code) ==
    CASE code = 1 -> "10x20" [] code = 2 -> "20x20" [] code = 3 -> "30x50"
      [] OTHER -> "NONE"

\* C22: after the map was updated with (camera, error, detected, box_type),
\* output_byte = camera + 2*error + 4*detected + 8*code(box_type), whatever
\* the byte held before, and get_output_string decodes the byte to the same
\* camera, error and detection values and to the name of the code.
C22_ByteIsPackedStatus ==
    pc = "encoded" =>
        /\ output_byte = BoolInt(in_status.camera) + 2 * BoolInt(in_status.error)
                         + 4 * BoolInt(in_status.detected)
                         + 8 * PackedCode(in_status.box_type)
        /\ out_packed.camera = BoolInt(in_status.camera)
        /\ out_packed.error = BoolInt(in_status.error)
        /\ out_packed.detection = BoolInt(in_status.detected)
        /\ out_packed.type = PackedName(PackedCode(in_status.box_type))

\* C22 witness: a 30x50 box was packed with the camera and detection bits
C22_Witness ==
    /\ pc = "encoded"
    /\ in_status = [ camera |-> TRUE, error |-> FALSE, detected |-> TRUE,
                     box_type |-> "30x50" ]
    /\ output_byte = 29
    /\ out_packed.type = "30x50"

\* The three type fields the command carries for a type
TypeFields(box_type) ==
    CASE box_type = "10x20" -> << 1, 0, 0 >>
      [] box_type = "20x20" -> << 0, 1, 0 >>
      [] box_type = "30x50" -> << 0, 0, 1 >>
      [] box_type = "NONE"  -> << 0, 0, 0 >>
      [] OTHER              -> << 1, 1, 1 >>

\* C23: for boolean inputs and any box_type, the command of update_status
\* has exactly six fields, each "0" or "1", separated by ":" and ended by a
\* newline, in the order camera, error, detected, t0, t1, t2, with
\* (t0, t1, t2) = (1,0,0) for 10x20, (0,1,0) for 20x20, (0,0,1) for 30x50,
\* (0,0,0) for NONE and (1,1,1) for UNKNOWN and any unrecognized type.
C23_CommandHasSixFields ==
    pc = "encoded" =>
        /\ Len(out_line) = 12
        /\ \A i \in 1..6 : out_line[2 * i - 1] \in { "0", "1" }
        /\ \A i \in 1..5 : out_line[2 * i] = ":"
        /\ out_line[12] = "\n"
        /\ [ i \in 1..6 |-> IF out_line[2 * i - 1] = "1" THEN 1 ELSE 0 ] =
             << BoolInt(in_status.camera), BoolInt(in_status.error),
                BoolInt(in_status.detected) >> \o TypeFields(in_status.box_type)

\* C23 witness: the command built for an unrecognized type
C23_Witness ==
    /\ pc = "encoded"
    /\ in_status = [ camera |-> TRUE, error |-> FALSE, detected |-> TRUE,
                     box_type |-> "40x40" ]
    /\ out_line = << "1", ":", "0", ":", "1", ":", "1", ":", "1", ":", "1", "\n" >>

(***************************************************************************)
(* Properties of the emissions, under SpecEmit.                            *)
(***************************************************************************)
\* A step in which send_to_ARD runs, and one in which send_to_plc runs
ArdEmission ==
    \/ FrameProcessed
    \/ pc = "ard" /\ pc' = "key" /\ since_ARD_update >= ArdUpdateInterval
    \/ pc = "map" /\ sends' = sends + 1
PlcEmission == pc = "map" /\ sends' = sends + 1

\* A history of at most 5 entries after one more entry
OneMoreEntry(hist, byte) ==
    IF Len(hist) < 5 THEN hist \o << byte >>
    ELSE << hist[2], hist[3], hist[4], hist[5], byte >>

\* The byte of a status
ByteOf(cam, err, det, code) == BoolInt(cam) + 2 * BoolInt(err) + 4 * BoolInt(det) + 8 * code

\* C24: each emission (send_to_ARD, send_to_plc) appends the current
\* output_byte to output_history and sets last_update_time to the current
\* time; output_history never holds more than 5 entries and drops the oldest
\* when a sixth is appended; and the byte and the error flags of a step are
\* given by the camera, the clock, the counters and the stable type alone,
\* whatever output_history holds.
C24_HistoryIsWriteOnly ==
    [][ /\ ArdEmission =>
             /\ output_history' = OneMoreEntry(output_history, output_byte')
             /\ since_update' = 0
        /\ ~ArdEmission => output_history' = output_history
        /\ PlcEmission =>
             /\ plc_output_history' = OneMoreEntry(plc_output_history, plc_output_byte')
             /\ plc_since_update' = 0
        /\ ~PlcEmission => plc_output_history' = plc_output_history
        /\ Len(output_history') <= 5 /\ Len(plc_output_history') <= 5
        /\ pc # "map" =>
             /\ system_errors' =
                  IF FrameProcessed
                  THEN [ camera_error      |-> camera # "open",
                         calibration_error |-> FALSE,
                         processing_error  |-> frames_processed' > 100 /\ valid_boxes = 0,
                         timeout_error     |-> since_update > 4 ]
                  ELSE system_errors
             /\ ArdEmission =>
                  output_byte' =
                    ByteOf(camera = "open",
                           \E k \in DOMAIN system_errors' : system_errors'[k],
                           box_type_history' # << >> /\ last_stable_type' # None,
                           IF box_type_history' # << >>
                           THEN PackedCode(last_stable_type') ELSE 0)
             /\ ~ArdEmission => output_byte' = output_byte
      ]_vars

\* C24 witness: both histories were full and lost their oldest entry, in the
\* driver of the maps
C24_Witness ==
    /\ pc = "map"
    /\ sends = 6
    /\ output_history = << 3, 13, 1, 3, 13 >>
    /\ plc_output_history = << 3, 13, 1, 3, 13 >>
    /\ since_update = 0

(***************************************************************************)
(* Properties of the frames of an uncalibrated system, under SpecHist.      *)
(***************************************************************************)
\* C25 as stated: in a frame processed while calibrated is false and in
\* which calibration does not succeed (it is not attempted, or it returns
\* None), no rectangle is classified: the frame has no detections, nothing
\* is appended to box_type_history and last_stable_type ends as None.
C25_NoClassificationWithoutCalibration ==
    [][ ( /\ FrameProcessed
          /\ ~calibrated
          /\ (calibration_call' = NoCall \/ calibration_call'[2] = "None") )
        => /\ current_detections' = << >>
           /\ box_type_history' = box_type_history
           /\ last_stable_type' = None ]_vars

(***************************************************************************)
(* Properties of the angle handling of is_aligned_rectangle, under         *)
(* SpecAngle.  Angles are counted in steps of 1/AngleScale degree.          *)
(***************************************************************************)
\* C26: for every normalized angle A and every max_angle_deviation d the
\* keys can reach, the alignment test passes exactly when min(A, 90 - A) <= d;
\* A = d and A = 90 - d both pass.
C26_AlignedIffWithinDeviation ==
    pc = "key" =>
        LET A == out_aligned.angle
            d == max_angle_deviation * AngleScale
        IN  /\ max_angle_deviation \in 1..45
            /\ out_aligned.passes <=> Min(A, 90 * AngleScale - A) <= d
            /\ (A = d \/ A = 90 * AngleScale - d) => out_aligned.passes

\* C26 witness: the deviation was raised to 11 degrees and a rectangle at
\* 79 degrees, on the boundary, passed
C26_Witness ==
    /\ pc = "key"
    /\ max_angle_deviation = 11
    /\ in_angle = 79 * AngleScale
    /\ out_aligned = [ angle |-> 79 * AngleScale, passes |-> TRUE ]

\* C27 as stated: for every raw angle in [-90, 90] the normalization yields
\* an angle in [0, 90), never exactly 90.
C27_NormalizedBelow90 ==
    pc = "key" =>
        out_aligned.angle >= 0 /\ out_aligned.angle < 90 * AngleScale

\* C27 amended: for every raw angle in [-90, 90] the normalization yields an
\* angle in [0, 90]; it is exactly 90 for the raw angle 90 and for no other,
\* and such a rectangle passes the alignment test.
C27_NormalizedUpTo90 ==
    pc = "key" =>
        /\ out_aligned.angle >= 0 /\ out_aligned.angle <= 90 * AngleScale
        /\ out_aligned.angle = 90 * AngleScale <=> in_angle = 90 * AngleScale
        /\ in_angle = 90 * AngleScale => out_aligned.passes

\* C27 witness: an angle below -45 degrees was folded
C27_Witness ==
    /\ pc = "key"
    /\ in_angle = -60 * AngleScale
    /\ out_aligned.angle = 30 * AngleScale

(***************************************************************************)
(* Properties of the leftmost rectangle, under SpecLeftmost.               *)
(***************************************************************************)
\* C28: the leftmost accepted rectangle of a frame is never measured or
\* classified, calibrated or not: a frame classifies at most its other
\* rectangles, and a frame whose only accepted rectangle is a catalog-sized
\* box has no valid classification, clears last_stable_type and emits
\* detected = 0.
C28_LeftmostIsNeverClassified ==
    [][ FrameProcessed =>
          /\ total_boxes' = (IF len_cnts' > 1 THEN len_cnts' - 1 ELSE 0)
          /\ Len(current_detections') <= total_boxes'
          /\ len_cnts' = 1 =>
               /\ current_detections' = << >>
               /\ valid_boxes' = 0
               /\ box_type_history' = box_type_history
               /\ last_stable_type' = None
               /\ stable_detection_count' = 0
               /\ Bit(output_byte', 2) = 0 ]_vars

\* C28 witness: calibrated at 10 px/cm, with a box seen before, the run
\* processed a frame holding one box alone
C28_Witness ==
    /\ pc = "ard"
    /\ calibrated
    /\ pixels_per_cm = << 10000 >>
    /\ box_type_history # << >>
    /\ len_cnts = 1
    /\ calibration_call = NoCall
    /\ last_stable_type = None
    /\ Bit(output_byte, 2) = 0

(***************************************************************************)
(* Properties of the emitted status, under Spec.                           *)
(***************************************************************************)
\* C29: in every status update_output_map emitted, after any sequence of
\* frames, the detected bit is 1 exactly when last_stable_type is not None
\* and exactly when the type code is not 00.
C29_DetectedIffStableType ==
    LET detected == Bit(output_byte, 2)
        code == Bit(output_byte, 3) + 2 * Bit(output_byte, 4)
    IN  /\ detected = 1 <=> last_stable_type # None
        /\ detected = 1 <=> code # 0
        /\ \A i \in 1..Len(output_history) :
             Bit(output_history[i], 2) = 1
               <=> Bit(output_history[i], 3) + Bit(output_history[i], 4) > 0

\* C29 witness: a box was seen in the first frame and none in the second;
\* the status then emitted has detected = 0 and type 00
C29_Witness ==
    /\ frames_processed = 2
    /\ box_type_history # << >>
    /\ last_stable_type = None
    /\ Len(output_history) >= 2
    /\ Bit(output_history[1], 2) = 1
    /\ Bit(output_byte, 2) = 0
    /\ Bit(output_byte, 3) + Bit(output_byte, 4) = 0

(***************************************************************************)
(* Properties of a scale that is not positive, under SpecNonPositive.      *)
(***************************************************************************)
\* calibrated with pixels_per_cm <= 0
NonPositiveScale(cal, ppc) == cal /\ ppc # NoValue /\ ppc[1] <= 0

\* C30: when calibration computes pixels_per_cm <= 0, or run() loads such a
\* value, calibrated is true; from then on a frame classifies no rectangle
\* and does not calibrate, last_stable_type is None and every emission has
\* detected = 0, and only the "c" key ends this.
C30_NonPositiveScaleBlocksDetection ==
    [][ /\ ( /\ FrameProcessed
             /\ calibration_call' # NoCall
             /\ pixels_per_cm'[1] <= 0 ) => calibrated'
        /\ ( /\ pc = "start" /\ pc' = "frame"
             /\ calib_file # NoFile /\ Parse2(calib_file[1]) <= 0 )
             => NonPositiveScale(calibrated', pixels_per_cm')
        /\ NonPositiveScale(calibrated', pixels_per_cm') =>
             /\ last_stable_type' = None
             /\ Bit(output_byte', 2) = 0
        /\ NonPositiveScale(calibrated, pixels_per_cm) =>
             /\ FrameProcessed =>
                  /\ current_detections' = << >>
                  /\ valid_boxes' = 0
                  /\ calibration_call' = NoCall
             /\ pixels_per_cm' = pixels_per_cm
             /\ ~calibrated' => pc = "key" /\ pc' = "frame"
      ]_vars

\* C30 witness: a scale of zero was computed after a detection, and the
\* next frame, with the reference and a box, classified nothing
C30_Witness ==
    /\ frames_processed = 3
    /\ calibrated
    /\ pixels_per_cm = << 0 >>
    /\ box_type_history # << >>
    /\ len_cnts = 2
    /\ calibration_call = NoCall
    /\ current_detections = << >>
    /\ last_stable_type = None

(***************************************************************************)
(* Properties of the error flags across a pause, under SpecPause.          *)
(***************************************************************************)
\* C31: timeout_error and processing_error are recomputed at the start of
\* every processed frame, whatever they were: the first frame after a pause
\* of more than 2.0 s (4 ticks) emits a status with the error bit set, and a
\* frame that starts within 2.0 s of the last emission, with no other error,
\* emits a status with the error bit clear.
C31_ErrorFlagsDoNotLatch ==
    [][ FrameProcessed =>
          /\ system_errors'.timeout_error <=> since_update > 4
          /\ system_errors'.processing_error
               <=> (frames_processed' > 100 /\ valid_boxes = 0)
          /\ since_update > 4 => Bit(output_byte', 1) = 1
          /\ ( /\ since_update <= 4
               /\ camera = "open"
               /\ ~(frames_processed' > 100 /\ valid_boxes = 0) )
             => Bit(output_byte', 1) = 0 ]_vars

\* C31 witness: frame 101 showed a box (status 15, with the processing
\* error of a run without boxes); the run was paused for more than 2.0 s;
\* frame 102, with a valid box before it, set the error bit for the timeout
\* alone (15, sent again by the timed update); frame 103 followed at once
\* and cleared the error bit (13)
C31_Witness ==
    /\ frames_processed = 103
    /\ pc = "ard"
    /\ ~paused
    /\ system_errors = [ camera_error |-> FALSE, calibration_error |-> FALSE,
                         processing_error |-> FALSE, timeout_error |-> FALSE ]
    /\ output_byte = 13
    /\ output_history = << 1, 15, 15, 15, 13 >>


(***************************************************************************)
(* SpecStable: the ArduinoOutput of SpecSerial, also given stable          *)
(* detections through send_stable_detection.                               *)
(***************************************************************************)
\* What a caller may name as the stable type: the catalogue, NONE, UNKNOWN,
\* a name outside type_codes, None
StableArgs == BoxTypeArgs \cup { None }

\* send_stable_detection(box_type)
SendStableDetection ==
    /\ pc = "serial"
    /\ updates < MaxUpdates
    /\ \E box_type \in StableArgs :
       \E write_ok \in (IF ~simulate /\ serial_connection # None THEN BOOLEAN
                        ELSE {TRUE}) :
       \E r \in { send_stable_detection(simulate, serial_connection, last_output,
                                        since_status_update, box_type, write_ok) } :
         /\ in_status' = [ box_type |-> box_type ]
         /\ last_output' = r.last_output
         /\ since_status_update' = r.since
         /\ update_call' = r.call
         /\ write_attempts' = IF r.call.write = "skipped" THEN write_attempts
                              ELSE write_attempts + 1
         /\ updates' = IF box_type \in DOMAIN type_codes THEN updates + 1
                       ELSE updates
    /\ UNCHANGED << pc, mapVars, plcVars, sends, sysVars, in_w, in_h, out_class,
                    out_packed, plc_out_packed, out_line, out_ppc, angleVars, simulate,
                    serial_connection, connect_call, scen >>

NextStable ==
    \/ UpdateStatus
    \/ SendStableDetection
    \/ SerialTick

SpecStable == InitSerial /\ [][NextStable]_vars

(***************************************************************************)
(* SpecKeys: a run in which the operator presses any key after each pass   *)
(* of the loop.                                                            *)
(***************************************************************************)
NextKeys ==
    \/ Startup
    \/ FrameStep(PauseFrames, MaxFrames)
    \/ ArdStep
    \/ \E key \in AllKeys : KeyStep(key)

SpecKeys == InitHist /\ [][NextKeys]_vars

(***************************************************************************)
(* SpecCalls: the calls of SpecMap, get_output_string on both maps, and    *)
(* time passing between the calls.                                         *)
(***************************************************************************)
\* get_output_string of both maps; the caller holds the two dicts
MapGetOutputString ==
    /\ pc = "map"
    /\ out_packed' = get_output_string(output_byte)
    /\ plc_out_packed' = plc_get_output_string(plc_output_byte)
    /\ pc' = "packed"
    /\ UNCHANGED << mapVars, plcVars, sends, arduinoVars, sysVars, in_w, in_h,
                    in_status, out_class, out_line, out_ppc, angleVars, scen >>

\* the caller drops the two dicts
MapReturn ==
    /\ pc = "packed"
    /\ out_packed' = NoValue
    /\ plc_out_packed' = NoValue
    /\ pc' = "map"
    /\ UNCHANGED << mapVars, plcVars, sends, arduinoVars, sysVars, in_w, in_h,
                    in_status, out_class, out_line, out_ppc, angleVars, scen >>

\* Half a second passes between two calls made before the first send
MapAge ==
    /\ sends = 0
    /\ since_update < MaxMapAge
    /\ MapTick

NextCalls ==
    \/ MapUpdateCamera
    \/ MapUpdateError
    \/ MapUpdateDetected
    \/ MapUpdateType
    \/ MapSend
    \/ MapGetOutputString
    \/ MapReturn
    \/ MapAge

SpecCalls == InitMap /\ [][NextCalls]_vars

(***************************************************************************)
(* C32: frame effect of the four updates and of get_output_string.         *)
(***************************************************************************)
\* the bits of byte outside the field that mask covers
OutsideField(byte, mask) == BitAnd(byte, 255 - mask)

\* histories and timestamps of both maps stay as they are
HistoriesAndTimesKept ==
    /\ output_history' = output_history
    /\ since_update' = since_update
    /\ plc_output_history' = plc_output_history
    /\ plc_since_update' = plc_since_update

\* both maps keep every bit outside the field that mask covers
OnlyFieldChanges(mask) ==
    /\ OutsideField(output_byte', mask) = OutsideField(output_byte, mask)
    /\ OutsideField(plc_output_byte', mask) = OutsideField(plc_output_byte, mask)
    /\ HistoriesAndTimesKept

\* C32: on ARDOutputMap and on PLCOutputMap, update_camera_status changes
\* bit 0 only, update_error_status bit 1 only, update_box_detected bit 2
\* only and update_box_type bits 3-4 only; none of them changes
\* output_history or last_update_time; get_output_string changes no field
\* of either map.
C32_UpdatesChangeOwnFieldOnly ==
    [][ /\ MapUpdateCamera => OnlyFieldChanges(1)
        /\ MapUpdateError => OnlyFieldChanges(2)
        /\ MapUpdateDetected => OnlyFieldChanges(4)
        /\ MapUpdateType => OnlyFieldChanges(24)
        /\ MapGetOutputString =>
              /\ output_byte' = output_byte
              /\ plc_output_byte' = plc_output_byte
              /\ HistoriesAndTimesKept ]_vars

\* C32 witness: half a second after construction status 31 was sent, then
\* update_error_status(False) cleared bit 1 alone and get_output_string
\* reported the byte 29 on both maps
C32_Witness ==
    /\ pc = "packed"
    /\ output_byte = 29
    /\ plc_output_byte = 29
    /\ output_history = << 31 >>
    /\ plc_output_history = << 31 >>
    /\ since_update = 0
    /\ plc_since_update = 0
    /\ out_packed.error = 0
    /\ out_packed.type = "30x50"
    /\ plc_out_packed.decimal = 29

(***************************************************************************)
(* C33: PLCOutputMap and ARDOutputMap under one sequence of calls.         *)
(***************************************************************************)
\* the keys that the dicts of both get_output_string have
SharedKeys == { "binary", "camera", "error", "detection", "type" }

\* C33: after every step of one sequence of update_camera_status,
\* update_error_status, update_box_detected, update_box_type and send calls
\* made on both maps from their initial states, PLCOutputMap and
\* ARDOutputMap hold the same output_byte and the same output_history, and
\* the dicts of their get_output_string agree on binary, camera, error,
\* detection and type.
C33_MapsAreEquivalent ==
    /\ plc_output_byte = output_byte
    /\ plc_output_history = output_history
    /\ pc = "packed" =>
          /\ SharedKeys \subseteq DOMAIN out_packed
          /\ SharedKeys \subseteq DOMAIN plc_out_packed
          /\ \A k \in SharedKeys : plc_out_packed[k] = out_packed[k]

\* C33 witness: both maps sent status 5, were given the type 20x20 and then
\* asked for their dicts, which name 20x20 for the byte 21
C33_Witness ==
    /\ pc = "packed"
    /\ output_byte = 21
    /\ plc_output_byte = 21
    /\ output_history = << 5 >>
    /\ plc_output_history = << 5 >>
    /\ out_packed.type = "20x20"
    /\ plc_out_packed.type = "20x20"
    /\ plc_out_packed.binary = << 0, 0, 0, 1, 0, 1, 0, 1 >>
    /\ DOMAIN plc_out_packed = SharedKeys \cup { "decimal" }
    /\ DOMAIN out_packed = SharedKeys

(***************************************************************************)
(* C34: the range of max_angle_deviation.                                  *)
(***************************************************************************)
\* the step handles the key: the loop is at cv2.waitKey and goes on
Pressed(key) == pc = "key" /\ KeyStep(key)

\* C34: max_angle_deviation starts at 10 and stays within [1, 45]; the '+'
\* key adds 1 but never goes above 45, the '-' key subtracts 1 but never
\* goes below 1, and no other key and no frame changes it.
C34_AngleDeviationStaysInRange ==
    /\ max_angle_deviation = 10
    /\ [](max_angle_deviation \in 1..45)
    /\ [][ /\ Pressed("+") =>
                max_angle_deviation' =
                  IF max_angle_deviation < 45 THEN max_angle_deviation + 1 ELSE 45
           /\ Pressed("-") =>
                max_angle_deviation' =
                  IF max_angle_deviation > 1 THEN max_angle_deviation - 1 ELSE 1
           /\ ~(Pressed("+") \/ Pressed("-")) =>
                max_angle_deviation' = max_angle_deviation ]_vars

\* C34 witness: after 35 passes with the '+' key the tolerance is at its
\* cap, two frames were processed and the loop runs on
C34_Witness ==
    /\ max_angle_deviation = 45
    /\ pc = "frame"
    /\ frames_processed = 2
    /\ ~paused
    /\ exit_cause = "none"

(***************************************************************************)
(* C35: send_stable_detection and the keys of type_codes.                  *)
(***************************************************************************)
\* the names that ArduinoOutput.type_codes has a code for
KnownNames == { "10x20", "20x20", "30x50", "NONE", "UNKNOWN" }

\* C35: send_stable_detection with a box_type that is no key of type_codes
\* returns False, leaves last_output and last_update_time as they were and
\* sends nothing; with a key of type_codes, NONE and UNKNOWN included, it
\* records a status with camera = true, error = false, detection = true and
\* that type.
C35_StableDetectionNeedsKnownType ==
    [][ SendStableDetection =>
          IF in_status'.box_type \in KnownNames
          THEN /\ last_output'.camera = TRUE
               /\ last_output'.error = FALSE
               /\ last_output'.detection = TRUE
               /\ last_output'.type = in_status'.box_type
          ELSE /\ update_call'.returned = "False"
               /\ update_call'.write = "skipped"
               /\ write_attempts' = write_attempts
               /\ updates' = updates
               /\ last_output' = last_output
               /\ since_status_update' = since_status_update ]_vars

\* C35 witness: an error status was written to the port, half a second
\* passed, then send_stable_detection("40x40") returned False and left the
\* recorded status and its age as they were
C35_Witness ==
    /\ pc = "serial"
    /\ ~simulate
    /\ serial_connection = "open"
    /\ in_status = [ box_type |-> "40x40" ]
    /\ update_call = [ write |-> "skipped", returned |-> "False" ]
    /\ last_output # NoValue
    /\ last_output.error = TRUE
    /\ last_output.type = "UNKNOWN"
    /\ since_status_update = 1
    /\ write_attempts = 1
    /\ updates = 1

(***************************************************************************)
(* C36: a port that cannot be opened, and a write that fails.              *)
(***************************************************************************)
\* __init__ tried to open the port and could not
ConnectionFailed == connect_call = << "False" >>

\* A step that is one call of update_status
StatusUpdated == updates' = updates + 1

\* C36: when the serial connection cannot be opened at construction,
\* simulate is true in every later state, no write is ever attempted, and
\* every update_status call returns False and still records last_output; a
\* write that fails on an open connection does not switch simulate to true.
C36_FailedConnectionStaysSimulated ==
    /\ [](ConnectionFailed =>
            /\ simulate = TRUE
            /\ write_attempts = 0
            /\ update_call # NoCall => update_call.write = "skipped"
            /\ update_call # NoCall => update_call.returned = "False")
    /\ [][ (ConnectionFailed /\ StatusUpdated) =>
             /\ update_call'.returned = "False"
             /\ last_output' # NoValue
             /\ last_output'.type = in_status'.box_type
             /\ since_status_update' = 0 ]_vars
    /\ [][ (StatusUpdated /\ update_call'.write = "failed") =>
             /\ simulate = FALSE
             /\ simulate' = FALSE
             /\ serial_connection' = "open" ]_vars

\* C36 witness: the port could not be opened; two update_status calls later
\* no write was attempted, the last call returned False and its status
\* 20x20 is the recorded one
C36_Witness ==
    /\ ConnectionFailed
    /\ simulate = TRUE
    /\ serial_connection = None
    /\ updates = 2
    /\ write_attempts = 0
    /\ update_call = [ write |-> "skipped", returned |-> "False" ]
    /\ last_output # NoValue
    /\ last_output.type = "20x20"
    /\ last_output.command = << "1", ":", "0", ":", "1", ":", "0", ":", "1", ":", "0" >>

=============================================================================
